---- MODULE Spec2Model ----
(***************************************************************************)
(* A model of uni-toolkit's UniRunner (src/uni/runners.py) and of the      *)
(* UniAlgorithm / UniEnvironment base classes it drives: the layered       *)
(* parameter resolution, the checkpoint policy, the throttled heartbeat,   *)
(* the model publication and the run() dispatcher.                         *)
(***************************************************************************)
EXTENDS Integers, Sequences, FiniteSets, TLC

(***************************************************************************)
(* Python values.  A value is a record with a type tag; `s` holds the      *)
(* characters of a str, `n` the number of an int.                          *)
(***************************************************************************)
PyNone == [t |-> "none", s |-> <<>>, n |-> 0]

PyInt(k) == [t |-> "int", s |-> <<>>, n |-> k]

PyStr(cs) == [t |-> "str", s |-> cs, n |-> 0]

\* A float with one decimal, held as its number of tenths (4.0 is PyFloat(40)).
PyFloat(tenths) == [t |-> "float", s |-> <<>>, n |-> tenths]

PyNaN == [t |-> "nan", s |-> <<>>, n |-> 0]

PyBool(b) == [t |-> "bool", s |-> <<>>, n |-> IF b THEN 1 ELSE 0]

Digits == <<"0", "1", "2", "3", "4", "5", "6", "7", "8", "9">>

IsDigit(c) == \E i \in 1..10 : Digits[i] = c

DigitValue(c) == (CHOOSE i \in 1..10 : Digits[i] = c) - 1

RECURSIVE DigitsValue(_)
DigitsValue(cs) ==
    IF cs = <<>> THEN 0
    ELSE 10 * DigitsValue(SubSeq(cs, 1, Len(cs) - 1)) + DigitValue(cs[Len(cs)])

RECURSIVE StripLeft(_)
StripLeft(cs) ==
    IF cs # <<>> /\ cs[1] = " " THEN StripLeft(Tail(cs)) ELSE cs

RECURSIVE StripRight(_)
StripRight(cs) ==
    IF cs # <<>> /\ cs[Len(cs)] = " " THEN StripRight(SubSeq(cs, 1, Len(cs) - 1)) ELSE cs

\* The outcome of a call: exc = "none" and a value, or the exception raised.
Returned(v) == [exc |-> "none", value |-> v]

Raised(e) == [exc |-> e, value |-> PyNone]

(***************************************************************************)
(* Cleaners.  The runner's own cleaners are all the builtin int; plugins   *)
(* may register int or the helpers of uni/helpers.py.                      *)
(***************************************************************************)
\* builtin int(value): an int is kept, a str is stripped and parsed as an
\* optionally signed decimal, None is a TypeError.
py_int(v) ==
    IF v.t = "int" THEN Returned(v)
    ELSE IF v.t = "none" THEN Raised("TypeError")
    ELSE LET st   == StripRight(StripLeft(v.s))
             body == IF st # <<>> /\ st[1] \in {"-", "+"} THEN Tail(st) ELSE st
             neg  == st # <<>> /\ st[1] = "-"
         IN  IF body # <<>> /\ \A i \in 1..Len(body) : IsDigit(body[i])
             THEN Returned(PyInt(IF neg THEN 0 - DigitsValue(body) ELSE DigitsValue(body)))
             ELSE Raised("ValueError")

\* type_or_none(int): a falsy value (None, 0, '') gives None, else int(value).
type_or_none_int(v) ==
    IF v.t = "none" \/ (v.t = "int" /\ v.n = 0) \/ (v.t = "str" /\ v.s = <<>>)
    THEN Returned(PyNone)
    ELSE py_int(v)

ApplyCleaner(c, v) ==
    CASE c = "int" -> py_int(v)
      [] c = "type_or_none_int" -> type_or_none_int(v)
      [] OTHER -> Raised("TypeError")

(***************************************************************************)
(* Dictionaries are functions on the set of their keys.                    *)
(***************************************************************************)
EmptyDict == [k \in {} |-> PyNone]

\* dict.update: the entries of `new` replace those of `old`.
DictUpdate(old, new) == new @@ old

\* dict.get(key): None when the key is missing.
DictGet(d, key) == IF key \in DOMAIN d THEN d[key] ELSE PyNone

\* The dictionaries holding at most one of `names`, with a value of `vals`.
SmallDicts(names, vals) ==
    {EmptyDict} \cup {[k \in {nm} |-> v] : nm \in names, v \in vals}

(***************************************************************************)
(* Bounds and input sets of the model.                                     *)
(***************************************************************************)
\* The largest episode budget a run is given.
MaxEpisodes == 3

\* What environment.step answers within one episode, call after call: done
\* at once, or never done.  One answer more than the step limit of the runs
\* below, so that a step too many would be seen in the reward.
StepResult(reward, done) == [reward |-> reward, done |-> done]

StepPlans ==
    {<<StepResult(1, TRUE), StepResult(2, TRUE), StepResult(4, TRUE)>>,
     <<StepResult(1, FALSE), StepResult(2, FALSE), StepResult(4, FALSE)>>}

\* The seconds an episode may take.
Durations == {2, 6}

\* The seconds between the two clock readings of update_episode_count.
Lags == {0, 1}

\* The seconds between two direct calls of update_episode_count.
Waits == {1, 6}

\* The latest time of a direct call of update_episode_count.
MaxNow == 12

\* The episode counts, scores and episode numbers of direct calls.
Counts == {1, 2}

SaveEpisodes == {21, 25, 41, 42}

(***************************************************************************)
(* State.                                                                  *)
(***************************************************************************)
VARIABLES
    PARAMETERS_OVERRIDDEN,      \* UniRunner.PARAMETERS_OVERRIDDEN, shared by all runners
    os_environ,                 \* os.environ: str values only
    PARAMETERS,                 \* the runner class's PARAMETERS
    algorithm_PARAMETERS,       \* the algorithm class's PARAMETERS (updated in place on load)
    environment_PARAMETERS,     \* the environment's PARAMETERS (replaced on load)
    algorithm_CLEANERS,         \* the algorithm class's PARAMETERS_CLEANERS
    environment_CLEANERS,       \* the environment class's PARAMETERS_CLEANERS
    algorithm_file,             \* parameters.json beside the algorithm class
    environment_file,           \* parameters.json beside the environment class
    algorithm_path,             \* self.algorithm_path
    environment_path,           \* self.environment_path
    _algorithm,                 \* self._algorithm: "None" or "loaded"
    _environment,               \* self._environment: "None" or "loaded"
    local,                      \* self.local
    run_mode,                   \* self.run_mode
    render,                     \* self.render
    _best_last_saved_model_score,   \* None or the score of the last save
    _last_episode_number_saved,     \* the episode number of the last save
    _last_update_episode_time,      \* None or the time of the last heartbeat
    _last_update_episode,           \* None or the episode count of the last heartbeat
    now,                        \* datetime.datetime.now(), in seconds
    pc,                         \* where run() stands
    exc,                        \* the exception in flight, "none" without one
    episodes_rewards,           \* the list train() appends to and yields
    model_score,                \* run_training's local model_score
    episode,                    \* run_training's local episode; run_model's local episode
    episodes,                   \* train()'s local episodes, the episode budget
    step,                       \* run_model's local step
    events,                     \* the plugin and remote calls of the last step, in order
    trace,                      \* the hooks called since run() began, in order
    last_request,               \* <<>> or the last heartbeat request sent, as the service saw it
    runners,                    \* the runners of a process with several: each one's own fields
    ret                         \* what the last call returned or raised

vars == <<PARAMETERS_OVERRIDDEN, os_environ, PARAMETERS, algorithm_PARAMETERS,
          environment_PARAMETERS, algorithm_CLEANERS, environment_CLEANERS,
          algorithm_file, environment_file, algorithm_path, environment_path,
          _algorithm, _environment, local, run_mode, render, step,
          _best_last_saved_model_score,
          _last_episode_number_saved, _last_update_episode_time, _last_update_episode,
          now, pc, exc, episodes_rewards, model_score, episode, episodes, events,
          trace, last_request, runners, ret>>

\* The groups of variables the actions leave alone.
sourceVars == <<PARAMETERS_OVERRIDDEN, os_environ, PARAMETERS, algorithm_CLEANERS,
                environment_CLEANERS, algorithm_file, environment_file>>

pluginVars == <<algorithm_PARAMETERS, environment_PARAMETERS, _algorithm, _environment>>

pathVars == <<algorithm_path, environment_path, render>>

saveVars == <<_best_last_saved_model_score, _last_episode_number_saved>>

heartbeatVars == <<_last_update_episode_time, _last_update_episode>>

loopVars == <<episodes_rewards, model_score, episode, episodes, trace>>

(***************************************************************************)
(* Plugin loading (uni/helpers.py, UniRunner.environment / .algorithm).    *)
(***************************************************************************)
\* str.split('.')
RECURSIVE SplitDots(_)
SplitDots(cs) ==
    IF \A i \in 1..Len(cs) : cs[i] # "." THEN <<cs>>
    ELSE LET i == CHOOSE j \in 1..Len(cs) : cs[j] = "." /\ \A k \in 1..(j - 1) : cs[k] # "."
         IN  <<SubSeq(cs, 1, i - 1)>> \o SplitDots(SubSeq(cs, i + 1, Len(cs)))

\* '.'.join(parts)
RECURSIVE JoinDots(_)
JoinDots(parts) ==
    IF parts = <<>> THEN <<>>
    ELSE IF Len(parts) = 1 THEN parts[1]
    ELSE parts[1] \o <<".">> \o JoinDots(Tail(parts))

\* The importable modules and the attributes each one defines.
ModuleAttributes(m) ==
    CASE m = <<"a">> -> {<<"D">>}
      [] m = <<"e">> -> {<<"C">>}
      [] OTHER -> {}

ModuleExists(m) == ModuleAttributes(m) # {}

import_path(path) ==
    LET parts       == SplitDots(path.s)
        module_path == SubSeq(parts, 1, Len(parts) - 1)
        class_name  == parts[Len(parts)]
        module      == JoinDots(module_path)
    IN  IF module = <<>> THEN Raised("ValueError")
        ELSE IF ~ModuleExists(module) THEN Raised("ModuleNotFoundError")
        ELSE IF class_name \notin ModuleAttributes(module) THEN Raised("AttributeError")
        ELSE Returned(path)

\* ParameterReaderMixin.read_parameters: the file's content, {} without a file.
read_parameters(file) ==
    IF file.state = "absent" THEN [exc |-> "none", data |-> EmptyDict]
    ELSE IF file.state = "malformed" THEN [exc |-> "UniFatalError", data |-> EmptyDict]
    ELSE [exc |-> "none", data |-> file.data]

\* The plugin state a property access reads and may change.
PluginState ==
    [alg |-> _algorithm, env |-> _environment,
     algP |-> algorithm_PARAMETERS, envP |-> environment_PARAMETERS]

\* The constructor half of UniRunner.environment: the class was imported
\* (or not), UniEnvironment.__init__ read its parameters file (or not).
environment_load(ps, klass, read) ==
    IF klass.exc # "none" THEN [exc |-> klass.exc, ps |-> ps]
    ELSE IF read.exc # "none" THEN [exc |-> read.exc, ps |-> ps]
    ELSE [exc |-> "none", ps |-> [ps EXCEPT !.env = "loaded", !.envP = read.data]]

\* UniRunner.environment (property)
environment_get(ps) ==
    IF ps.env # "None" THEN [exc |-> "none", ps |-> ps]
    ELSE IF environment_path = PyNone THEN [exc |-> "UniConfigurationError", ps |-> ps]
    ELSE environment_load(ps, import_path(environment_path), read_parameters(environment_file))

\* The constructor half of UniRunner.algorithm: the class was imported, the
\* environment was asked for its spaces, UniAlgorithm.__init__ updated the
\* class's PARAMETERS with its parameters file.
algorithm_load(ps, klass, env, read) ==
    IF klass.exc # "none" THEN [exc |-> klass.exc, ps |-> ps]
    ELSE IF env.exc # "none" THEN [exc |-> env.exc, ps |-> env.ps]
    ELSE IF read.exc # "none" THEN [exc |-> read.exc, ps |-> env.ps]
    ELSE [exc |-> "none",
          ps |-> [env.ps EXCEPT !.alg = "loaded", !.algP = DictUpdate(env.ps.algP, read.data)]]

\* A property whose cached algorithm has lost its PARAMETERS.
algorithm_get_forgetful(ps) ==
    IF ps.alg # "None" THEN [exc |-> "none", ps |-> [ps EXCEPT !.algP = EmptyDict]]
    ELSE IF algorithm_path = PyNone THEN [exc |-> "UniConfigurationError", ps |-> ps]
    ELSE algorithm_load(ps, import_path(algorithm_path), environment_get(ps),
                        read_parameters(algorithm_file))

\* UniRunner.algorithm (property)
algorithm_get(ps) ==
    IF ps.alg # "None" THEN [exc |-> "none", ps |-> ps]
    ELSE IF algorithm_path = PyNone THEN [exc |-> "UniConfigurationError", ps |-> ps]
    ELSE algorithm_load(ps, import_path(algorithm_path), environment_get(ps),
                        read_parameters(algorithm_file))

(***************************************************************************)
(* UniRunner.parameter                                                     *)
(***************************************************************************)
\* The runner class's PARAMETERS_CLEANERS.
PARAMETERS_CLEANERS ==
    [k \in {"EPISODES", "CPU_NUMBER", "MODEL_SAVE_BEST_LAST_MEAN", "MODEL_SAVE_FREQUENCY"}
        |-> "int"]

\* The tuple with the process environment ahead of the run-time overrides.
parameter_sources_environ_first(ps) ==
    <<os_environ, PARAMETERS_OVERRIDDEN, PARAMETERS, ps.algP, ps.envP>>

\* The tuple of sources the scan walks, in its order.
parameter_sources(ps) ==
    <<PARAMETERS_OVERRIDDEN, os_environ, PARAMETERS, ps.algP, ps.envP>>

\* The tuple of cleaner tables, in its order.
cleaner_sources == <<PARAMETERS_CLEANERS, algorithm_CLEANERS, environment_CLEANERS>>

\* The first of the dictionaries `dicts` that holds `name`; 0 when none does.
FirstHolding(name, dicts) ==
    IF \A i \in 1..Len(dicts) : name \notin DOMAIN dicts[i] THEN 0
    ELSE CHOOSE i \in 1..Len(dicts) :
            /\ name \in DOMAIN dicts[i]
            /\ \A j \in 1..(i - 1) : name \notin DOMAIN dicts[j]

\* A scan that takes a source holding None for a source without the name.
scan_found_by_value(name, sources, first) ==
    IF first = 0 \/ sources[first][name] = PyNone
    THEN Raised("UniConfigurationError")
    ELSE Returned(sources[first][name])

\* The for/else scan: the value of the first source holding the name.
scan_found(name, sources, first) ==
    IF first = 0 THEN Raised("UniConfigurationError") ELSE Returned(sources[first][name])

scan_sources(name, sources) == scan_found(name, sources, FirstHolding(name, sources))

\* A handler that lets the cleaner's own exception through.
cleaner_outcome_reraised(cleaned) == cleaned

\* The try/except around the cleaner: whatever it raises becomes a
\* configuration error.
cleaner_outcome(cleaned) ==
    IF cleaned.exc # "none" THEN Raised("UniConfigurationError") ELSE cleaned

\* A cleaner loop in which the last table holding the name wins.
clean_found_by_last_table(name, value, tables, first) ==
    IF first = 0 THEN Returned(value)
    ELSE cleaner_outcome(ApplyCleaner(
            tables[CHOOSE i \in 1..Len(tables) :
                      /\ name \in DOMAIN tables[i]
                      /\ \A j \in (i + 1)..Len(tables) : name \notin DOMAIN tables[j]][name],
            value))

\* The cleaner loop: the first table holding the name cleans the value.
clean_found(name, value, tables, first) ==
    IF first = 0 THEN Returned(value)
    ELSE cleaner_outcome(ApplyCleaner(tables[first][name], value))

apply_cleaner(name, value, tables) ==
    clean_found(name, value, tables, FirstHolding(name, tables))

\* The evaluation of the tuple of sources: the algorithm is asked for first,
\* then the environment.
plugins_after(alg) == IF alg.exc # "none" THEN alg ELSE environment_get(alg.ps)

plugins_get(ps) == plugins_after(algorithm_get(ps))

\* The outcome of parameter(name): what it returns or raises, the value the
\* scan found before cleaning, and the plugin state it leaves.
parameter_outcome(found, cleaned, ps) ==
    IF found.exc # "none"
    THEN [exc |-> found.exc, value |-> PyNone, found |-> found, ps |-> ps]
    ELSE [exc |-> cleaned.exc, value |-> cleaned.value, found |-> found, ps |-> ps]

parameter_cleaned(name, found, ps) ==
    parameter_outcome(found, apply_cleaner(name, found.value, cleaner_sources), ps)

parameter_scanned(name, plugins) ==
    IF plugins.exc # "none"
    THEN [exc |-> plugins.exc, value |-> PyNone, found |-> Raised(plugins.exc),
          ps |-> plugins.ps]
    ELSE parameter_cleaned(name, scan_sources(name, parameter_sources(plugins.ps)),
                           plugins.ps)

\* parameter(name), from plugin state ps
parameter(name, ps) == parameter_scanned(name, plugins_get(ps))

(***************************************************************************)
(* The checkpoint policy.                                                  *)
(***************************************************************************)
\* The names the runner, train() and the remote calls look up.
LookupNames ==
    {"EPISODES", "MAX_STEPS", "MODEL_SAVE_BEST_LAST_MEAN", "MODEL_SAVE_FREQUENCY",
     "UNI_MODEL_DIR", "UNI_API_URL", "UNI_API_TOKEN", "UNI_ORGANIZATION_ID",
     "UNI_PROJECT_ID", "UNI_RUN_ID", "UNI_RIN_ID"}

\* self[name]: __getitem__ is parameter(name) on the runner's plugin state.
\* The operations below take it as their first argument, self.
Self == [name \in LookupNames |-> parameter(name, PluginState)]

\* The first exception the lookups of `names` raise, in order; "none" without.
FirstExc(self, names) ==
    LET bad == {i \in 1..Len(names) : self[names[i]].exc # "none"}
    IN  IF bad = {} THEN "none"
        ELSE self[names[CHOOSE i \in bad : \A j \in bad : i <= j]].exc

RECURSIVE SeqSum(_)
SeqSum(seq) == IF seq = <<>> THEN 0 ELSE seq[1] + SeqSum(Tail(seq))

\* seq[-w:], Python's slice from a negated index.
SliceFromMinus(seq, w) ==
    LET start == IF w > 0 THEN (IF Len(seq) - w < 0 THEN 0 ELSE Len(seq) - w)
                 ELSE (IF 0 - w > Len(seq) THEN Len(seq) ELSE 0 - w)
    IN  SubSeq(seq, start + 1, Len(seq))

\* round(num / den, 1) in tenths: numpy rounds the scaled value half to even.
RoundTenths(num, den) ==
    LET scaled == 10 * num
        q      == scaled \div den
        r      == scaled % den
    IN  IF 2 * r < den THEN q
        ELSE IF 2 * r > den THEN q + 1
        ELSE IF q % 2 = 0 THEN q ELSE q + 1

\* get_model_score(episodes_rewards)
get_model_score(self, rewards) ==
    LET w      == self["MODEL_SAVE_BEST_LAST_MEAN"]
        window == SliceFromMinus(rewards, w.value.n)
    IN  IF w.exc # "none" THEN Raised(w.exc)
        ELSE IF w.value.t # "int" THEN Raised("TypeError")
        ELSE IF window = <<>> THEN Returned(PyNaN)
        ELSE Returned(PyFloat(RoundTenths(SeqSum(window), Len(window))))

\* a > b on floats: false as soon as one of them is nan.
FloatGreater(a, b) == a.t = "float" /\ b.t = "float" /\ a.n > b.n

\* The runner's run state, as the operations below read and return it.
RunState ==
    [best |-> _best_last_saved_model_score, last_saved |-> _last_episode_number_saved,
     hb_time |-> _last_update_episode_time, hb_episode |-> _last_update_episode]

\* A decision that takes a spacing of exactly MODEL_SAVE_FREQUENCY for enough.
should_save_model_at_spacing(self, rs, score, episode_number) ==
    LET frequency == self["MODEL_SAVE_FREQUENCY"]
    IN  IF frequency.exc # "none" THEN [exc |-> frequency.exc, value |-> FALSE]
        ELSE [exc |-> "none",
              value |-> /\ episode_number - rs.last_saved >= frequency.value.n
                        /\ (rs.best = PyNone \/ FloatGreater(score, rs.best))]

\* A decision that looks at the spacing only.
should_save_model_any_score(self, rs, score, episode_number) ==
    LET frequency == self["MODEL_SAVE_FREQUENCY"]
    IN  IF frequency.exc # "none" THEN [exc |-> frequency.exc, value |-> FALSE]
        ELSE [exc |-> "none", value |-> episode_number - rs.last_saved > frequency.value.n]

\* should_save_model(model_score, episode_number)
should_save_model(self, rs, score, episode_number) ==
    LET frequency           == self["MODEL_SAVE_FREQUENCY"]
        is_not_too_frequent == episode_number - rs.last_saved > frequency.value.n
        has_greater_score   == rs.best = PyNone \/ FloatGreater(score, rs.best)
    IN  IF frequency.exc # "none" THEN [exc |-> frequency.exc, value |-> FALSE]
        ELSE [exc |-> "none", value |-> is_not_too_frequent /\ has_greater_score]

(***************************************************************************)
(* Remote calls.  An event records one call out of the runner: the plugin  *)
(* hook or the HTTP request, its argument, how it ended and when.          *)
(***************************************************************************)
Event(op, arg, result, at) == [op |-> op, arg |-> arg, result |-> result, at |-> at]

\* _call_uni_api, with the lookups its caller makes to build the path before
\* it: the request goes out only when every lookup succeeds, and answers
\* `outcome`: a status, or "raise" when requests raises.
_call_uni_api(self, path_names, op, arg, outcome, at) ==
    LET failed == FirstExc(self, path_names \o <<"UNI_API_URL", "UNI_API_TOKEN">>)
    IN  IF failed # "none" THEN [exc |-> failed, status |-> "", events |-> <<>>]
        ELSE IF outcome = "raise"
             THEN [exc |-> "ConnectionError", status |-> "",
                   events |-> <<Event(op, arg, "raise", at)>>]
        ELSE [exc |-> "none", status |-> outcome, events |-> <<Event(op, arg, outcome, at)>>]

RunPath == <<"UNI_ORGANIZATION_ID", "UNI_PROJECT_ID", "UNI_RUN_ID">>

InstancePath == <<"UNI_ORGANIZATION_ID", "UNI_PROJECT_ID", "UNI_RUN_ID", "UNI_RIN_ID">>

\* A publication that uploads whatever the score POST answers.
publish_model_always(self, score, net, at) ==
    LET post  == _call_uni_api(self, RunPath, "POST score", score, net.post, at)
        put   == Event("PUT archive", PyNone, net.put, at)
        patch == _call_uni_api(self, RunPath, "PATCH uploaded", PyInt(net.id), net.patch, at)
    IN  IF post.exc # "none" THEN [exc |-> post.exc, events |-> post.events]
        ELSE [exc |-> "none", events |-> post.events \o <<put>> \o patch.events]

\* A publication that marks the model as uploaded whatever the PUT answers.
publish_model_marked_always(self, score, net, at) ==
    LET post  == _call_uni_api(self, RunPath, "POST score", score, net.post, at)
        put   == Event("PUT archive", PyNone, net.put, at)
        patch == _call_uni_api(self, RunPath, "PATCH uploaded", PyInt(net.id), net.patch, at)
    IN  IF post.exc # "none" THEN [exc |-> post.exc, events |-> post.events]
        ELSE IF post.status = "201"
             THEN IF net.tar = "raise"
                  THEN [exc |-> "FileNotFoundError", events |-> post.events]
                  ELSE IF net.put = "raise"
                  THEN [exc |-> "ConnectionError", events |-> post.events \o <<put>>]
                  ELSE [exc |-> patch.exc, events |-> post.events \o <<put>> \o patch.events]
        ELSE IF post.status = "204"
             THEN [exc |-> IF score.t = "nan" THEN "ValueError" ELSE "none",
                   events |-> post.events]
        ELSE [exc |-> "none", events |-> post.events]

\* The publication half of model_save, after the run state was updated.
publish_model(self, score, net, at) ==
    LET post  == _call_uni_api(self, RunPath, "POST score", score, net.post, at)
        put   == Event("PUT archive", PyNone, net.put, at)
        patch == _call_uni_api(self, RunPath, "PATCH uploaded", PyInt(net.id), net.patch, at)
    IN  IF post.exc # "none" THEN [exc |-> post.exc, events |-> post.events]
        ELSE IF post.status = "201"
             THEN IF net.tar = "raise"
                  THEN [exc |-> "FileNotFoundError", events |-> post.events]
                  ELSE IF net.put = "raise"
                  THEN [exc |-> "ConnectionError", events |-> post.events \o <<put>>]
                  ELSE IF net.put = "200"
                  THEN [exc |-> patch.exc, events |-> post.events \o <<put>> \o patch.events]
                  ELSE [exc |-> "none", events |-> post.events \o <<put>>]
        ELSE IF post.status = "204"
             THEN [exc |-> IF score.t = "nan" THEN "ValueError" ELSE "none",
                   events |-> post.events]
        ELSE [exc |-> "none", events |-> post.events]

\* A save that records its arguments before the plugin has saved.
model_save_recorded_first(self, rs, score, episode_number, net, at) ==
    LET directory == self["UNI_MODEL_DIR"]
        save      == Event("save", directory.value, net.save, at)
        saved     == [rs EXCEPT !.best = score, !.last_saved = episode_number]
        published == publish_model(self, score, net, at)
    IN  IF directory.exc # "none" THEN [exc |-> directory.exc, rs |-> rs, events |-> <<>>]
        ELSE IF net.save = "raise"
             THEN [exc |-> "PluginError", rs |-> saved, events |-> <<save>>]
        ELSE IF local THEN [exc |-> "none", rs |-> saved, events |-> <<save>>]
        ELSE [exc |-> published.exc, rs |-> saved, events |-> <<save>> \o published.events]

\* A save that records its score and starts the episode count over.
model_save_count_reset(self, rs, score, episode_number, net, at) ==
    LET directory == self["UNI_MODEL_DIR"]
        save      == Event("save", directory.value, net.save, at)
        saved     == [rs EXCEPT !.best = score, !.last_saved = 0]
        published == publish_model(self, score, net, at)
    IN  IF directory.exc # "none" THEN [exc |-> directory.exc, rs |-> rs, events |-> <<>>]
        ELSE IF net.save = "raise" THEN [exc |-> "PluginError", rs |-> rs, events |-> <<save>>]
        ELSE IF local THEN [exc |-> "none", rs |-> saved, events |-> <<save>>]
        ELSE [exc |-> published.exc, rs |-> saved, events |-> <<save>> \o published.events]

\* model_save(model_score, episode_number)
model_save(self, rs, score, episode_number, net, at) ==
    LET directory == self["UNI_MODEL_DIR"]
        save      == Event("save", directory.value, net.save, at)
        saved     == [rs EXCEPT !.best = score, !.last_saved = episode_number]
        published == publish_model(self, score, net, at)
    IN  IF directory.exc # "none" THEN [exc |-> directory.exc, rs |-> rs, events |-> <<>>]
        ELSE IF net.save = "raise" THEN [exc |-> "PluginError", rs |-> rs, events |-> <<save>>]
        ELSE IF local THEN [exc |-> "none", rs |-> saved, events |-> <<save>>]
        ELSE [exc |-> published.exc, rs |-> saved, events |-> <<save>> \o published.events]

\* The seconds between two heartbeat requests that are not forced.
HeartbeatSeconds == 5

\* update_episode_count(episodes, force): `checked` and `recorded` are the two
\* readings of datetime.datetime.now().
\* A heartbeat that a forced call sends again with the count already reported.
update_episode_count_resent(self, rs, count, force, net, checked, recorded) ==
    LET due      == force \/ rs.hb_time = PyNone
                    \/ checked - rs.hb_time.n > HeartbeatSeconds
        reported == [rs EXCEPT !.hb_episode = PyInt(count), !.hb_time = PyInt(recorded)]
        call     == _call_uni_api(self, InstancePath, "PATCH episodes", PyInt(count), net.hb, recorded)
    IN  IF local THEN [exc |-> "none", rs |-> rs, events |-> <<>>]
        ELSE IF ~due THEN [exc |-> "none", rs |-> rs, events |-> <<>>]
        ELSE IF rs.hb_episode = PyInt(count) /\ ~force
             THEN [exc |-> "none", rs |-> rs, events |-> <<>>]
        ELSE [exc |-> call.exc, rs |-> reported, events |-> call.events]

\* A heartbeat that is due as soon as the interval has elapsed, not after it.
update_episode_count_at_interval(self, rs, count, force, net, checked, recorded) ==
    LET due      == force \/ rs.hb_time = PyNone
                    \/ checked - rs.hb_time.n >= HeartbeatSeconds
        reported == [rs EXCEPT !.hb_episode = PyInt(count), !.hb_time = PyInt(recorded)]
        call     == _call_uni_api(self, InstancePath, "PATCH episodes", PyInt(count), net.hb, recorded)
    IN  IF local THEN [exc |-> "none", rs |-> rs, events |-> <<>>]
        ELSE IF ~due THEN [exc |-> "none", rs |-> rs, events |-> <<>>]
        ELSE IF rs.hb_episode = PyInt(count) THEN [exc |-> "none", rs |-> rs, events |-> <<>>]
        ELSE [exc |-> call.exc, rs |-> reported, events |-> call.events]

\* An update that records the count only once the request has returned.
update_episode_count_recorded_after(self, rs, count, force, net, checked, recorded) ==
    LET due      == force \/ rs.hb_time = PyNone
                    \/ checked - rs.hb_time.n > HeartbeatSeconds
        reported == [rs EXCEPT !.hb_episode = PyInt(count), !.hb_time = PyInt(recorded)]
        call     == _call_uni_api(self, InstancePath, "PATCH episodes", PyInt(count), net.hb, recorded)
    IN  IF local THEN [exc |-> "none", rs |-> rs, events |-> <<>>]
        ELSE IF ~due THEN [exc |-> "none", rs |-> rs, events |-> <<>>]
        ELSE IF rs.hb_episode = PyInt(count) THEN [exc |-> "none", rs |-> rs, events |-> <<>>]
        ELSE [exc |-> call.exc, rs |-> IF call.exc = "none" THEN reported ELSE rs,
              events |-> call.events]

update_episode_count(self, rs, count, force, net, checked, recorded) ==
    LET due      == force \/ rs.hb_time = PyNone
                    \/ checked - rs.hb_time.n > HeartbeatSeconds
        reported == [rs EXCEPT !.hb_episode = PyInt(count), !.hb_time = PyInt(recorded)]
        call     == _call_uni_api(self, InstancePath, "PATCH episodes", PyInt(count), net.hb, recorded)
    IN  IF local THEN [exc |-> "none", rs |-> rs, events |-> <<>>]
        ELSE IF ~due THEN [exc |-> "none", rs |-> rs, events |-> <<>>]
        ELSE IF rs.hb_episode = PyInt(count) THEN [exc |-> "none", rs |-> rs, events |-> <<>>]
        ELSE [exc |-> call.exc, rs |-> reported, events |-> call.events]

(***************************************************************************)
(* What the world outside the runner may answer during one step: whether   *)
(* algorithm.save raises, the status of each request ("raise" when the     *)
(* request itself raises), whether building the archive raises, and the    *)
(* model id the score POST returns.                                        *)
(***************************************************************************)
ModelIds == {7, 8}

QuietNet ==
    [save |-> "ok", post |-> "204", tar |-> "ok", put |-> "200", patch |-> "200",
     id |-> 7, hb |-> "200"]

SaveScenarios ==
    {[QuietNet EXCEPT !.save = "raise"]}
    \cup {[QuietNet EXCEPT !.post = p] : p \in {"204", "500", "raise"}}
    \cup {[QuietNet EXCEPT !.post = "201", !.tar = "raise"]}
    \cup {[QuietNet EXCEPT !.post = "201", !.put = u] : u \in {"500", "raise"}}
    \cup {[QuietNet EXCEPT !.post = "201", !.patch = a, !.id = i] :
             a \in {"200", "raise"}, i \in ModelIds}

\* The answers that matter to a step that saves (or not) and sends a
\* heartbeat (or not): the answers to calls never made are left at QuietNet's.
NetScenarios(saves, beats) ==
    {[n EXCEPT !.hb = h] :
        n \in (IF saves THEN SaveScenarios ELSE {QuietNet}),
        h \in (IF beats THEN {"200", "raise"} ELSE {"200"})}

(***************************************************************************)
(* run_training and the generator train() it drives.                       *)
(***************************************************************************)
\* `if self.should_save_model(...): self.model_save(...)`: the save, made when
\* the decision is to save.
save_decided(decision, saving) ==
    IF decision.exc # "none"
    THEN [exc |-> decision.exc, rs |-> saving.rs, events |-> <<>>, decision |-> FALSE]
    ELSE [exc |-> saving.exc, rs |-> saving.rs, events |-> saving.events,
          decision |-> decision.value]

\* A loop that saves at every yield, whatever the decision.
save_at_every_yield(self, rs, score, number, decision, net, at) ==
    save_decided(decision,
                 IF decision.exc = "none"
                 THEN model_save(self, rs, score, number, net, at)
                 ELSE [exc |-> "none", rs |-> rs, events |-> <<>>])

save_if_due(self, rs, score, number, decision, net, at) ==
    save_decided(decision,
                 IF decision.exc = "none" /\ decision.value
                 THEN model_save(self, rs, score, number, net, at)
                 ELSE [exc |-> "none", rs |-> rs, events |-> <<>>])

decide_and_save(self, rs, score, number, net, at) ==
    save_if_due(self, rs, score, number, should_save_model(self, rs, score, number), net, at)

\* The body of run_training's for loop at one yield of train(), statement by
\* statement: the heartbeat ends it,
body_updated(score, saved, update) ==
    [exc |-> update.exc, rs |-> update.rs, events |-> saved.events \o update.events,
     score |-> score, decision |-> saved.decision, raised_in |-> "update_episode_count"]

\* after the decision and the save it asked for,
body_saved(self, number, score, saved, net, checked, recorded) ==
    IF saved.exc # "none"
    THEN [exc |-> saved.exc, rs |-> saved.rs, events |-> saved.events, score |-> score,
          decision |-> saved.decision, raised_in |-> "model_save"]
    ELSE body_updated(score, saved,
                      update_episode_count(self, saved.rs, number, FALSE, net, checked,
                                           recorded))

\* after the score.
body_scored(self, rs, number, score, net, checked, recorded) ==
    IF score.exc # "none"
    THEN [exc |-> score.exc, rs |-> rs, events |-> <<>>, score |-> PyNone,
          decision |-> FALSE, raised_in |-> "get_model_score"]
    ELSE body_saved(self, number, score.value,
                    decide_and_save(self, rs, score.value, number, net, checked),
                    net, checked, recorded)

loop_body(self, rs, rewards, net, checked, recorded) ==
    body_scored(self, rs, Len(rewards), get_model_score(self, rewards), net, checked,
                recorded)

\* The two statements after the loop: the forced heartbeat, then the final
\* save with the loop's last model_score and episode.
tail_saved(update, saving) ==
    [exc |-> saving.exc, rs |-> saving.rs, events |-> update.events \o saving.events]

tail_updated(self, update, score, number, net, recorded) ==
    IF update.exc # "none"
    THEN [exc |-> update.exc, rs |-> update.rs, events |-> update.events]
    ELSE tail_saved(update, model_save(self, update.rs, score, number, net, recorded))

\* An end of run_training whose last heartbeat is not forced.
after_loop_unforced(self, rs, rewards, score, number, net, checked, recorded) ==
    IF rewards = <<>> THEN [exc |-> "UnboundLocalError", rs |-> rs, events |-> <<>>]
    ELSE tail_updated(self,
                      update_episode_count(self, rs, Len(rewards), FALSE, net, checked,
                                           recorded),
                      score, number, net, recorded)

after_loop(self, rs, rewards, score, number, net, checked, recorded) ==
    IF rewards = <<>> THEN [exc |-> "UnboundLocalError", rs |-> rs, events |-> <<>>]
    ELSE tail_updated(self,
                      update_episode_count(self, rs, Len(rewards), TRUE, net, checked,
                                           recorded),
                      score, number, net, recorded)

\* One call of a hook of the algorithm or the environment: which hook, in
\* which episode and step, and for step and post_step the reward and is_done
\* of that step.
Hook(hook, number, index, answer) ==
    [hook |-> hook, episode |-> number, step |-> index, reward |-> answer.reward,
     done |-> answer.done]

NoAnswer == StepResult(0, FALSE)

\* The head of train(): the episode budget, then prepare().
train_start(self, prepared) ==
    IF self["EPISODES"].exc # "none"
    THEN [exc |-> self["EPISODES"].exc, episodes |-> 0, hooks |-> <<>>]
    ELSE IF self["EPISODES"].value.t # "int"
    THEN [exc |-> "TypeError", episodes |-> 0, hooks |-> <<>>]
    ELSE IF self["UNI_MODEL_DIR"].exc # "none"
    THEN [exc |-> self["UNI_MODEL_DIR"].exc, episodes |-> 0,
          hooks |-> <<Hook("prepare", 0, 0, NoAnswer)>>]
    ELSE IF prepared = "raise"
    THEN [exc |-> "PluginError", episodes |-> 0, hooks |-> <<Hook("prepare", 0, 0, NoAnswer)>>]
    ELSE [exc |-> "none", episodes |-> self["EPISODES"].value.n,
          hooks |-> <<Hook("prepare", 0, 0, NoAnswer)>>]

\* A step loop that does not break on is_done.
steps_taken_to_the_limit(plan, limit) == limit

\* The passes of the step loop: it breaks at the first is_done, and range()
\* ends it after `limit` passes.
steps_taken(plan, limit) ==
    IF \E s \in 1..limit : plan[s].done
    THEN CHOOSE s \in 1..limit : plan[s].done /\ \A r \in 1..(s - 1) : ~plan[r].done
    ELSE limit

\* The hooks of the step loop: action_train, environment.step, post_step,
\* pass after pass.
step_hooks(number, plan, taken) ==
    [i \in 1..(3 * taken) |->
        Hook(<<"action_train", "step", "post_step">>[((i - 1) % 3) + 1], number,
             ((i - 1) \div 3) + 1,
             IF (i - 1) % 3 = 0 THEN NoAnswer ELSE plan[((i - 1) \div 3) + 1])]

\* An entry that sums every answer of the plan, taken or not.
episode_reward_of_plan(plan, taken) == SeqSum([s \in 1..Len(plan) |-> plan[s].reward])

\* episodes_rewards[-1] after the step loop: 0.0 plus the reward of each step.
episode_reward(plan, taken) == SeqSum([s \in 1..taken |-> plan[s].reward])

episode_ran(number, plan, taken) ==
    [exc |-> "none",
     hooks |-> <<Hook("reset", number, 0, NoAnswer), Hook("pre_episode", number, 0, NoAnswer)>>
               \o step_hooks(number, plan, taken)
               \o <<Hook("post_episode", number, 0, NoAnswer)>>,
     reward |-> episode_reward(plan, taken)]

\* One pass of train()'s episode loop, up to its yield: the environment is
\* reset (`outcome` is "raise" when that raises), pre_episode runs, the step
\* limit is read, the steps run, post_episode runs.
train_episode(self, number, outcome, plan) ==
    IF outcome = "raise"
    THEN [exc |-> "PluginError", hooks |-> <<Hook("reset", number, 0, NoAnswer)>>, reward |-> 0]
    ELSE IF self["MAX_STEPS"].exc # "none" \/ self["MAX_STEPS"].value.t # "int"
    THEN [exc |-> IF self["MAX_STEPS"].exc # "none" THEN self["MAX_STEPS"].exc
                  ELSE "TypeError",
          hooks |-> <<Hook("reset", number, 0, NoAnswer),
                      Hook("pre_episode", number, 0, NoAnswer)>>,
          reward |-> 0]
    ELSE episode_ran(number, plan, steps_taken(plan, self["MAX_STEPS"].value.n))

\* next() on the generator created by train(): `start` is the head of train()
\* when this is the first next(), `ran` the episode that follows it.
train_next(start, more, ran, took) ==
    IF start.exc # "none"
    THEN [exc |-> start.exc, pc |-> "except", episodes |-> start.episodes,
          rewards |-> episodes_rewards, now |-> now, hooks |-> start.hooks]
    ELSE IF ~more
    THEN [exc |-> "none", pc |-> "exhausted", episodes |-> start.episodes,
          rewards |-> episodes_rewards, now |-> now, hooks |-> start.hooks]
    ELSE [exc |-> ran.exc, pc |-> IF ran.exc # "none" THEN "except" ELSE "yielded",
          episodes |-> start.episodes, rewards |-> Append(episodes_rewards, ran.reward),
          now |-> now + took, hooks |-> start.hooks \o ran.hooks]

train_resume(self, start, outcome, plan, took) ==
    train_next(start, Len(episodes_rewards) < start.episodes,
               train_episode(self, Len(episodes_rewards) + 1, outcome, plan), took)

\* The heartbeat requests among the events of a step.
Beats(evs) == SelectSeq(evs, LAMBDA e : e.op = "PATCH episodes")

LastOf(seq, otherwise) == IF seq = <<>> THEN otherwise ELSE <<seq[Len(seq)]>>

SetRunState(rs) ==
    /\ _best_last_saved_model_score' = rs.best
    /\ _last_episode_number_saved' = rs.last_saved
    /\ _last_update_episode_time' = rs.hb_time
    /\ _last_update_episode' = rs.hb_episode

SetPluginState(ps) ==
    /\ _algorithm' = ps.alg
    /\ _environment' = ps.env
    /\ algorithm_PARAMETERS' = ps.algP
    /\ environment_PARAMETERS' = ps.envP

RunStep(alg) ==
    /\ SetPluginState(alg.ps)
    /\ exc' = alg.exc
    /\ pc' = IF alg.exc = "none" THEN "created" ELSE "except"

\* run(), mode 'train': run_training asks the algorithm for its generator.
Run ==
    /\ pc = "idle"
    /\ run_mode = "train"
    /\ RunStep(algorithm_get(PluginState))
    /\ events' = <<>>
    /\ UNCHANGED <<runners, sourceVars, pathVars, local, run_mode, step, saveVars, heartbeatVars, now,
                   loopVars, last_request, ret>>

TrainNextStep(next) ==
    /\ episodes' = next.episodes
    /\ exc' = next.exc
    /\ pc' = next.pc
    /\ episodes_rewards' = next.rewards
    /\ trace' = trace \o next.hooks
    /\ now' = next.now

TrainNextFrom(self, prepared, outcome, plan, took) ==
    TrainNextStep(train_resume(self,
                               IF pc = "created" THEN train_start(self, prepared)
                               ELSE [exc |-> "none", episodes |-> episodes, hooks |-> <<>>],
                               outcome, plan, took))

\* next() on the generator: the head of train() the first time, then one
\* episode up to the yield, or the end of the generator.
TrainNext ==
    /\ pc \in {"created", "suspended"}
    /\ \E prepared \in (IF pc = "created" THEN {"ok", "raise"} ELSE {"ok"}),
          outcome \in {"ok", "raise"}, plan \in StepPlans, took \in Durations :
          TrainNextFrom(Self, prepared, outcome, plan, took)
    /\ events' = <<>>
    /\ UNCHANGED <<runners, sourceVars, pluginVars, pathVars, local, run_mode, step, saveVars,
                   heartbeatVars, model_score, episode, last_request, ret>>

DecisionStep(body, number, at) ==
    /\ SetRunState(body.rs)
    /\ events' = body.events
    /\ exc' = body.exc
    /\ pc' = IF body.exc = "none" THEN "suspended" ELSE "except"
    /\ last_request' = LastOf(Beats(body.events), last_request)
    /\ model_score' = body.score
    /\ trace' = Append(trace, Hook("decision", number, 0, NoAnswer))
    /\ episode' = IF body.score = PyNone THEN episode ELSE number
    /\ ret' = [op |-> "loop_body", exc |-> body.exc, value |-> body.decision,
               raised_in |-> IF body.exc = "none" THEN "" ELSE body.raised_in,
               before |-> RunState]
    /\ now' = at

\* Whether the loop body at this yield gets as far as calling model_save.
saves_when_scored(self, score) ==
    /\ score.exc = "none"
    /\ should_save_model(self, RunState, score.value, Len(episodes_rewards)).value

saves_at_yield(self) == saves_when_scored(self, get_model_score(self, episodes_rewards))

\* The loop body of run_training at a yield: score, decision, save, heartbeat.
DecisionPoint ==
    /\ pc = "yielded"
    /\ \E net \in NetScenarios(saves_at_yield(Self), ~local),
          lag \in (IF local THEN {0} ELSE Lags) :
          DecisionStep(loop_body(Self, RunState, episodes_rewards, net, now, now + lag),
                       Len(episodes_rewards), now + lag)
    /\ UNCHANGED <<runners, sourceVars, pluginVars, pathVars, local, run_mode, step, episodes_rewards,
                   episodes>>

AfterLoopStep(tail, at) ==
    /\ SetRunState(tail.rs)
    /\ events' = tail.events
    /\ exc' = tail.exc
    /\ pc' = IF tail.exc = "none" THEN "returned" ELSE "except"
    /\ last_request' = LastOf(Beats(tail.events), last_request)
    /\ ret' = [op |-> "after_loop", exc |-> tail.exc, value |-> FALSE, before |-> RunState]
    /\ now' = at

\* The end of run_training, once the generator is exhausted.
AfterLoop ==
    /\ pc = "exhausted"
    /\ \E net \in NetScenarios(TRUE, ~local), lag \in (IF local THEN {0} ELSE Lags) :
          AfterLoopStep(after_loop(Self, RunState, episodes_rewards, model_score, episode,
                                   net, now, now + lag),
                        now + lag)
    /\ UNCHANGED <<runners, sourceVars, pluginVars, pathVars, local, run_mode, step, loopVars>>

\* A notification sent whether the runner is local or not.
finish_notification_always(self, failed, answer, at) ==
    _call_uni_api(self, InstancePath, "POST finish", PyBool(failed), answer, at)

\* The finish notification of run()'s except and else branches.
finish_notification(self, failed, answer, at) ==
    IF local THEN [exc |-> "none", status |-> "", events |-> <<>>]
    ELSE _call_uni_api(self, InstancePath, "POST finish", PyBool(failed), answer, at)

\* What leaves the try/except/else statement around run_training: what the
\* notification raised, else what run_training raised.
handler_outcome(raised, notified) ==
    [exc    |-> IF notified.exc # "none" THEN notified.exc ELSE raised,
     events |-> notified.events]

inner_handler(self, raised, answer, at) ==
    handler_outcome(raised, finish_notification(self, raised # "none", answer, at))

\* The outer handlers: sys.exit(1), sys.exit(2), or the exception goes on.
run_outcome(leaving) ==
    CASE leaving = "none" -> "done"
      [] leaving = "UniFatalError" -> "exit1"
      [] leaving = "UniConfigurationError" -> "exit2"
      [] OTHER -> "propagated"

FinishStep(inner, ps) ==
    /\ events' = inner.events
    /\ exc' = inner.exc
    /\ pc' = run_outcome(inner.exc)
    /\ ret' = [op |-> "run", exc |-> inner.exc, value |-> FALSE, raised |-> exc]
    /\ SetPluginState(ps)

FinishFrom(self, answer) ==
    FinishStep(inner_handler(self, exc, answer, now),
               IF local THEN PluginState ELSE self["UNI_MODEL_DIR"].ps)

FinishNotification ==
    /\ pc \in {"except", "returned"}
    /\ \E answer \in (IF local THEN {"200"} ELSE {"200", "500", "raise"}) :
          FinishFrom(Self, answer)
    /\ UNCHANGED <<runners, sourceVars, pathVars, local, run_mode, step, saveVars, heartbeatVars, now,
                   loopVars, last_request>>

(***************************************************************************)
(* The training run: a runner in mode 'train', started once.               *)
(***************************************************************************)
\* UniRunner.PARAMETERS as the class declares it.
DefaultParameters ==
    [k \in {"UNI_MODEL_DIR", "CPU_NUMBER", "EPISODES", "MODEL_SAVE_BEST_LAST_MEAN",
            "MODEL_SAVE_FREQUENCY"} |->
        CASE k = "UNI_MODEL_DIR" -> PyStr(<<"/", "t", "m", "p">>)
          [] k = "CPU_NUMBER" -> PyInt(1)
          [] k = "EPISODES" -> PyInt(100)
          [] k = "MODEL_SAVE_BEST_LAST_MEAN" -> PyInt(100)
          [] k = "MODEL_SAVE_FREQUENCY" -> PyInt(20)]

ApiNames ==
    {"UNI_API_URL", "UNI_API_TOKEN", "UNI_ORGANIZATION_ID", "UNI_PROJECT_ID", "UNI_RUN_ID",
     "UNI_RIN_ID"}

\* The process environments of a run: every API variable set, or the
\* instance id missing.
RunEnvironments ==
    {[k \in ApiNames |-> PyStr(<<"v">>)], [k \in ApiNames \ {"UNI_RIN_ID"} |-> PyStr(<<"v">>)]}

\* The --set overrides of a run, as the strings the command line gives.
RunOverrides ==
    {[k \in {"EPISODES", "MODEL_SAVE_FREQUENCY", "MODEL_SAVE_BEST_LAST_MEAN"} |->
        CASE k = "EPISODES" -> PyStr(<<Digits[e + 1]>>)
          [] k = "MODEL_SAVE_FREQUENCY" -> PyStr(<<Digits[f + 1]>>)
          [] k = "MODEL_SAVE_BEST_LAST_MEAN" -> PyStr(<<Digits[w + 1]>>)] :
        e \in 0..MaxEpisodes, f \in {0, 1}, w \in {2}}

AlgorithmRef == PyStr(<<"a", ".", "D">>)

EnvironmentRef == PyStr(<<"e", ".", "C">>)

NoFile == [state |-> "absent", data |-> EmptyDict]

\* UniRunner.__init__: the per-instance fields of a new runner.
NewRunner ==
    /\ _algorithm = "None"
    /\ _environment = "None"
    /\ _best_last_saved_model_score = PyNone
    /\ _last_episode_number_saved = 0
    /\ _last_update_episode_time = PyNone
    /\ _last_update_episode = PyNone

Init ==
    /\ PARAMETERS_OVERRIDDEN \in RunOverrides
    /\ os_environ \in RunEnvironments
    /\ PARAMETERS = DefaultParameters
    /\ algorithm_PARAMETERS = [k \in {"MAX_STEPS"} |-> PyInt(2)]
    /\ environment_PARAMETERS = EmptyDict
    /\ algorithm_CLEANERS = [k \in {} |-> "int"]
    /\ environment_CLEANERS = [k \in {} |-> "int"]
    /\ algorithm_file = NoFile
    /\ environment_file = NoFile
    /\ algorithm_path = AlgorithmRef
    /\ environment_path = EnvironmentRef
    /\ NewRunner
    /\ local \in BOOLEAN
    /\ run_mode = "train"
    /\ render = FALSE
    /\ step = 0
    /\ runners = <<>>
    /\ now = 0
    /\ pc = "idle"
    /\ exc = "none"
    /\ episodes_rewards = <<>>
    /\ model_score = PyNone
    /\ episode = 0
    /\ episodes = 0
    /\ events = <<>>
    /\ trace = <<>>
    /\ last_request = <<>>
    /\ ret = [op |-> "none", exc |-> "none", value |-> FALSE]

Next == Run \/ TrainNext \/ DecisionPoint \/ AfterLoop \/ FinishNotification

Spec == Init /\ [][Next]_vars

(***************************************************************************)
(* run() in every mode: 'run' plays the persisted model in run_model's     *)
(* endless loops, 'info' prints the runner's name, any other mode is a     *)
(* configuration error.  The loops of run_model are cut off by             *)
(* MaxModelEpisodes and MaxModelSteps.                                     *)
(***************************************************************************)
MaxModelEpisodes == 2

MaxModelSteps == 3

\* What environment.step may answer to run_model.
ModelAnswers == {StepResult(1, FALSE), StepResult(2, TRUE)}

\* The head of run_model: the algorithm is loaded, UNI_MODEL_DIR is looked
\* up, algorithm.load is called (`loaded` is "raise" when it raises).
model_start(directory, loaded) ==
    IF directory.exc # "none" THEN [exc |-> directory.exc, hooks |-> <<>>]
    ELSE IF loaded = "raise"
    THEN [exc |-> "PluginError", hooks |-> <<Hook("load", 0, 0, NoAnswer)>>]
    ELSE [exc |-> "none", hooks |-> <<Hook("load", 0, 0, NoAnswer)>>]

\* The end of run(): what the last call of the dispatch raised, if anything,
\* met the outer handlers.
RunLeft(leaving) == [op |-> "run", exc |-> leaving, value |-> FALSE, raised |-> leaving]

RunModelStep(start, ps) ==
    /\ SetPluginState(ps)
    /\ exc' = start.exc
    /\ trace' = trace \o start.hooks
    /\ pc' = IF start.exc = "none" THEN "model_loaded" ELSE run_outcome(start.exc)
    /\ ret' = IF start.exc = "none" THEN ret ELSE RunLeft(start.exc)

RunModelFrom(directory, loaded) == RunModelStep(model_start(directory, loaded), directory.ps)

\* run(), mode 'run': run_model up to its episode loop.
RunModel ==
    /\ pc = "idle"
    /\ run_mode = "run"
    /\ \E loaded \in {"ok", "raise"} : RunModelFrom(Self["UNI_MODEL_DIR"], loaded)
    /\ episode' = 0
    /\ events' = <<>>
    /\ UNCHANGED <<runners, sourceVars, pathVars, local, run_mode, step, saveVars, heartbeatVars, now,
                   episodes_rewards, model_score, episodes, last_request>>

\* The head of one pass of run_model's episode loop: the counters, then
\* environment.reset (`outcome` is "raise" when it raises).
ModelEpisode ==
    /\ pc = "model_loaded"
    /\ episode < MaxModelEpisodes
    /\ episode' = episode + 1
    /\ step' = 0
    /\ trace' = Append(trace, Hook("reset", episode + 1, 0, NoAnswer))
    /\ \E outcome \in {"ok", "raise"} :
          /\ exc' = IF outcome = "raise" THEN "PluginError" ELSE "none"
          /\ pc' = IF outcome = "raise" THEN run_outcome("PluginError") ELSE "model_stepping"
          /\ ret' = IF outcome = "raise" THEN RunLeft("PluginError") ELSE ret
    /\ events' = <<>>
    /\ UNCHANGED <<runners, sourceVars, pluginVars, pathVars, local, run_mode, saveVars, heartbeatVars,
                   now, episodes_rewards, model_score, episodes, last_request>>

\* A pass that asks the algorithm for a training action.
model_step_hooks_training(number, index, answer) ==
    <<Hook("action_train", number, index, NoAnswer), Hook("step", number, index, answer)>>

\* The hooks of one pass of run_model's step loop: render when asked for,
\* action, environment.step.
model_step_hooks(number, index, answer) ==
    (IF render THEN <<Hook("render", number, index, NoAnswer)>> ELSE <<>>)
    \o <<Hook("action", number, index, NoAnswer), Hook("step", number, index, answer)>>

\* Where run_model stands after a pass: `while not is_done` goes on, or the
\* episode loop takes over.
model_step_next(answer) == IF answer.done THEN "model_loaded" ELSE "model_stepping"

\* One pass of run_model's step loop (`outcome` is "raise" when
\* environment.step raises).
ModelStep ==
    /\ pc = "model_stepping"
    /\ step < MaxModelSteps
    /\ step' = step + 1
    /\ \E answer \in ModelAnswers, outcome \in {"ok", "raise"} :
          /\ trace' = trace \o model_step_hooks(episode, step + 1,
                                                 IF outcome = "raise" THEN NoAnswer ELSE answer)
          /\ exc' = IF outcome = "raise" THEN "PluginError" ELSE "none"
          /\ pc' = IF outcome = "raise" THEN run_outcome("PluginError")
                   ELSE model_step_next(answer)
          /\ ret' = IF outcome = "raise" THEN RunLeft("PluginError") ELSE ret
    /\ events' = <<>>
    /\ UNCHANGED <<runners, sourceVars, pluginVars, pathVars, local, run_mode, saveVars, heartbeatVars,
                   now, episodes_rewards, model_score, episode, episodes, last_request>>

\* run(), mode 'info': run_info prints the runner's name.
RunInfo ==
    /\ pc = "idle"
    /\ run_mode = "info"
    /\ pc' = run_outcome("none")
    /\ exc' = "none"
    /\ ret' = RunLeft("none")
    /\ events' = <<>>
    /\ UNCHANGED <<runners, sourceVars, pluginVars, pathVars, local, run_mode, step, saveVars,
                   heartbeatVars, now, loopVars, last_request>>

\* run(), any other mode: the else branch raises the configuration error.
UnknownMode ==
    /\ pc = "idle"
    /\ run_mode \notin {"run", "train", "info"}
    /\ pc' = run_outcome("UniConfigurationError")
    /\ exc' = "UniConfigurationError"
    /\ ret' = RunLeft("UniConfigurationError")
    /\ events' = <<>>
    /\ UNCHANGED <<runners, sourceVars, pluginVars, pathVars, local, run_mode, step, saveVars,
                   heartbeatVars, now, loopVars, last_request>>

\* The run modes a runner may be created with; "demo" is none run() knows.
RunModes == {"train", "run", "info", "demo"}

\* The references a runner may be given for a plugin: the plugin's own, none,
\* a module that cannot be imported, an attribute the module lacks.
References(good) ==
    {good, PyNone, PyStr(<<"m", ".", "D">>), PyStr(SubSeq(good.s, 1, 2) \o <<"X">>)}

MalformedFile == [state |-> "malformed", data |-> EmptyDict]

\* The --set overrides of these runs: one episode, or a budget that is no number.
ModesOverrides ==
    {[k \in {"EPISODES", "MODEL_SAVE_BEST_LAST_MEAN"} |->
        IF k = "EPISODES" THEN PyStr(<<e>>) ELSE PyStr(<<"2">>)] : e \in {"1", "x"}}

ModesInit ==
    /\ PARAMETERS_OVERRIDDEN \in ModesOverrides
    /\ os_environ \in RunEnvironments
    /\ PARAMETERS = DefaultParameters
    /\ algorithm_PARAMETERS = [k \in {"MAX_STEPS"} |-> PyInt(2)]
    /\ environment_PARAMETERS = EmptyDict
    /\ algorithm_CLEANERS = [k \in {} |-> "int"]
    /\ environment_CLEANERS = [k \in {} |-> "int"]
    /\ algorithm_file \in {NoFile, MalformedFile}
    /\ environment_file = NoFile
    /\ algorithm_path \in References(AlgorithmRef)
    /\ environment_path \in References(EnvironmentRef)
    /\ NewRunner
    /\ run_mode \in RunModes
    /\ local \in (IF run_mode = "train" THEN BOOLEAN ELSE {FALSE})
    /\ render \in (IF run_mode = "run" THEN BOOLEAN ELSE {FALSE})
    /\ step = 0
    /\ runners = <<>>
    /\ now = 0
    /\ pc = "idle"
    /\ exc = "none"
    /\ episodes_rewards = <<>>
    /\ model_score = PyNone
    /\ episode = 0
    /\ episodes = 0
    /\ events = <<>>
    /\ trace = <<>>
    /\ last_request = <<>>
    /\ ret = [op |-> "none", exc |-> "none", value |-> FALSE]

ModesNext == Next \/ RunModel \/ ModelEpisode \/ ModelStep \/ RunInfo \/ UnknownMode

SpecModes == ModesInit /\ [][ModesNext]_vars

(***************************************************************************)
(* Direct calls of the checkpoint policy on a runner whose plugins are     *)
(* loaded: the statement `if should_save_model(...): model_save(...)` with  *)
(* any score and episode number.                                           *)
(***************************************************************************)
Scores == {PyFloat(40), PyFloat(50), PyFloat(60)}

FullEnvironment == [k \in ApiNames |-> PyStr(<<"v">>)]

\* A runner right after its plugins were loaded, no other call made yet.
LoadedRunner ==
    /\ PARAMETERS = DefaultParameters
    /\ algorithm_PARAMETERS = [k \in {"MAX_STEPS"} |-> PyInt(2)]
    /\ environment_PARAMETERS = EmptyDict
    /\ algorithm_CLEANERS = [k \in {} |-> "int"]
    /\ environment_CLEANERS = [k \in {} |-> "int"]
    /\ algorithm_file = NoFile
    /\ environment_file = NoFile
    /\ algorithm_path = AlgorithmRef
    /\ environment_path = EnvironmentRef
    /\ _algorithm = "loaded"
    /\ _environment = "loaded"
    /\ _best_last_saved_model_score = PyNone
    /\ _last_episode_number_saved = 0
    /\ _last_update_episode_time = PyNone
    /\ _last_update_episode = PyNone
    /\ local \in BOOLEAN
    /\ run_mode = "train"
    /\ render = FALSE
    /\ step = 0
    /\ runners = <<>>
    /\ now = 0
    /\ pc = "idle"
    /\ exc = "none"
    /\ episodes_rewards = <<>>
    /\ model_score = PyNone
    /\ episode = 0
    /\ episodes = 0
    /\ events = <<>>
    /\ trace = <<>>
    /\ last_request = <<>>
    /\ ret = [op |-> "none", exc |-> "none", value |-> FALSE]

\* The spacing set on the command line, where it is.
SaveOverrides == {EmptyDict, [k \in {"MODEL_SAVE_FREQUENCY"} |-> PyStr(<<"4">>)]}

SaveInit ==
    /\ PARAMETERS_OVERRIDDEN \in SaveOverrides
    /\ os_environ = FullEnvironment
    /\ LoadedRunner

DecideStep(saved, score, number, net) ==
    /\ SetRunState(saved.rs)
    /\ events' = saved.events
    /\ ret' = [op |-> "decide_and_save", exc |-> saved.exc, value |-> saved.decision,
               score |-> score, episode |-> number, before |-> RunState,
               answers |-> IF saved.events = <<>> THEN QuietNet ELSE net]

Decide ==
    /\ \E score \in Scores, number \in SaveEpisodes, net \in NetScenarios(TRUE, FALSE) :
          DecideStep(decide_and_save(Self, RunState, score, number, net, now), score, number,
                     net)
    /\ UNCHANGED <<runners, sourceVars, pluginVars, pathVars, local, run_mode, step, now, pc, exc,
                   loopVars, last_request>>

SpecSave == SaveInit /\ [][Decide]_vars

(***************************************************************************)
(* Direct calls of get_model_score on a runner whose plugins are loaded,   *)
(* over reward histories and window sizes.                                 *)
(***************************************************************************)
MaxHistory == 3

ScoreRewards == {-1, 0, 2}

\* The reward histories scored: every history of up to MaxHistory rewards,
\* and the five episodes rewarded 1 to 5.
Histories ==
    {<<1, 2, 3, 4, 5>>} \cup UNION {[1..n -> ScoreRewards] : n \in 1..MaxHistory}

\* MODEL_SAVE_BEST_LAST_MEAN as --set gives it, or left at its default.
ScoreOverrides ==
    {EmptyDict} \cup
    {[k \in {"MODEL_SAVE_BEST_LAST_MEAN"} |-> PyStr(w)] :
        w \in {<<"1">>, <<"2">>, <<"3">>, <<"0">>, <<"-", "1">>}}

ScoreInit ==
    /\ PARAMETERS_OVERRIDDEN \in ScoreOverrides
    /\ os_environ = FullEnvironment
    /\ PARAMETERS = DefaultParameters
    /\ algorithm_PARAMETERS = [k \in {"MAX_STEPS"} |-> PyInt(2)]
    /\ environment_PARAMETERS = EmptyDict
    /\ algorithm_CLEANERS = [k \in {} |-> "int"]
    /\ environment_CLEANERS = [k \in {} |-> "int"]
    /\ algorithm_file = NoFile
    /\ environment_file = NoFile
    /\ algorithm_path = AlgorithmRef
    /\ environment_path = EnvironmentRef
    /\ _algorithm = "loaded"
    /\ _environment = "loaded"
    /\ _best_last_saved_model_score = PyNone
    /\ _last_episode_number_saved = 0
    /\ _last_update_episode_time = PyNone
    /\ _last_update_episode = PyNone
    /\ local = TRUE
    /\ run_mode = "train"
    /\ render = FALSE
    /\ step = 0
    /\ runners = <<>>
    /\ now = 0
    /\ pc = "idle"
    /\ exc = "none"
    /\ episodes_rewards \in Histories
    /\ model_score = PyNone
    /\ episode = 0
    /\ episodes = 0
    /\ events = <<>>
    /\ trace = <<>>
    /\ last_request = <<>>
    /\ ret = [op |-> "none", exc |-> "none", value |-> FALSE]

ScoreStep(score) ==
    /\ model_score' = score.value
    /\ ret' = [op |-> "get_model_score", exc |-> score.exc, value |-> score.value,
               rewards |-> episodes_rewards]

\* model_score = self.get_model_score(episodes_rewards)
Score ==
    /\ ScoreStep(get_model_score(Self, episodes_rewards))
    /\ UNCHANGED <<runners, sourceVars, pluginVars, pathVars, local, run_mode, step, saveVars,
                   heartbeatVars, now, pc, exc, episodes_rewards, episode, episodes, events,
                   trace, last_request>>

SpecScore == ScoreInit /\ [][Score]_vars

(***************************************************************************)
(* Direct calls of update_episode_count at non-decreasing times.           *)
(***************************************************************************)
HeartbeatInit ==
    /\ PARAMETERS_OVERRIDDEN = EmptyDict
    /\ os_environ \in RunEnvironments
    /\ LoadedRunner

UpdateStep(update, count, force, checked, recorded) ==
    /\ SetRunState(update.rs)
    /\ events' = update.events
    /\ last_request' = LastOf(Beats(update.events), last_request)
    /\ now' = recorded
    /\ ret' = [op |-> "update_episode_count", exc |-> update.exc, count |-> count,
               force |-> force, checked |-> checked, recorded |-> recorded,
               before |-> RunState, previous |-> last_request,
               earlier |-> IF ret.op # "update_episode_count" THEN <<>>
                           ELSE <<[count |-> ret.count, at |-> ret.recorded,
                                   sent |-> Beats(events) # <<>>]>>]

Update ==
    /\ \E count \in Counts, force \in BOOLEAN, answer \in {"200", "raise"},
          wait \in Waits, lag \in Lags :
          /\ now + wait + lag <= MaxNow
          /\ UpdateStep(update_episode_count(Self, RunState, count, force,
                                             [QuietNet EXCEPT !.hb = answer],
                                             now + wait, now + wait + lag),
                        count, force, now + wait, now + wait + lag)
    /\ UNCHANGED <<runners, sourceVars, pluginVars, pathVars, local, run_mode, step, pc, exc, loopVars>>

SpecHeartbeat == HeartbeatInit /\ [][Update]_vars

(***************************************************************************)
(* Direct calls of parameter(name) on a new runner, over the contents of   *)
(* the five sources.                                                       *)
(***************************************************************************)
ParamNames == {"EPISODES", "MAX_STEPS"}

\* The cleaners the two plugin classes declare, and the two plugin references.
PluginCleaners ==
    {<<[k \in {} |-> "int"], [k \in {} |-> "int"]>>,
     <<[k \in {} |-> "int"], [k \in {"MAX_STEPS"} |-> "type_or_none_int"]>>,
     <<[k \in {"MAX_STEPS"} |-> "int"], [k \in {"MAX_STEPS"} |-> "type_or_none_int"]>>,
     <<[k \in {"EPISODES"} |-> "type_or_none_int"], [k \in {} |-> "int"]>>}

PluginRefs ==
    {<<AlgorithmRef, EnvironmentRef>>, <<PyNone, EnvironmentRef>>, <<AlgorithmRef, PyNone>>,
     <<PyStr(<<"m", ".", "D">>), PyNone>>}

FileOf(data) == [state |-> "ok", data |-> data]

ParameterInit ==
    /\ PARAMETERS_OVERRIDDEN \in SmallDicts(ParamNames, {PyNone, PyStr(<<"7">>)})
    /\ os_environ \in SmallDicts(ParamNames, {PyStr(<<" ", "8", " ">>), PyStr(<<"x">>)})
    /\ PARAMETERS \in {DefaultParameters, EmptyDict, [k \in {"MAX_STEPS"} |-> PyNone]}
    /\ algorithm_PARAMETERS \in SmallDicts(ParamNames, {PyInt(4), PyStr(<<"x">>)})
    /\ environment_PARAMETERS = EmptyDict
    /\ environment_file \in
          {NoFile} \cup {FileOf(d) : d \in SmallDicts(ParamNames, {PyInt(5), PyNone})}
    /\ algorithm_file \in {NoFile, FileOf([k \in {"MAX_STEPS"} |-> PyInt(0)])}
    /\ \E c \in PluginCleaners :
          algorithm_CLEANERS = c[1] /\ environment_CLEANERS = c[2]
    /\ \E r \in PluginRefs : algorithm_path = r[1] /\ environment_path = r[2]
    /\ NewRunner
    /\ local = TRUE
    /\ run_mode = "train"
    /\ render = FALSE
    /\ step = 0
    /\ runners = <<>>
    /\ now = 0
    /\ pc = "idle"
    /\ exc = "none"
    /\ episodes_rewards = <<>>
    /\ model_score = PyNone
    /\ episode = 0
    /\ episodes = 0
    /\ events = <<>>
    /\ trace = <<>>
    /\ last_request = <<>>
    /\ ret = [op |-> "none", exc |-> "none", value |-> FALSE]

\* What parameter(name) returns or raises for each name, from plugin state ps.
Resolutions(ps) ==
    [n \in ParamNames |-> [exc |-> parameter(n, ps).exc, value |-> parameter(n, ps).value]]

\* One call, recorded with what a call of each name would have given in its
\* place (`before`) and gives once it has ended (`after`).
ParameterStep(name, outcome) ==
    /\ SetPluginState(outcome.ps)
    /\ ret' = [op |-> "parameter", name |-> name, exc |-> outcome.exc,
               value |-> outcome.value, found |-> outcome.found,
               before |-> Resolutions(PluginState), after |-> Resolutions(outcome.ps)]

CallParameter ==
    /\ \E name \in ParamNames : ParameterStep(name, parameter(name, PluginState))
    /\ UNCHANGED <<runners, sourceVars, pathVars, local, run_mode, step, saveVars, heartbeatVars, now, pc,
                   exc, loopVars, events, last_request>>

SpecParameter == ParameterInit /\ [][CallParameter]_vars

(***************************************************************************)
(* Several runners in one process.  The class attributes (the override     *)
(* table, the defaults, the algorithm class's PARAMETERS) are the          *)
(* variables above; `runners` holds what each instance owns, and the       *)
(* `parameters` argument it was constructed with.                          *)
(***************************************************************************)
MaxRunners == 2

\* The `parameters` argument of the constructor: <<>> for None, else <<dict>>.
OverrideArguments ==
    {<<>>, <<[k \in {"EPISODES"} |-> PyStr(<<"7">>)]>>, <<[k \in {"EPISODES"} |-> PyStr(<<"8">>)]>>,
     <<[k \in {"MAX_STEPS"} |-> PyStr(<<"7">>)]>>}

\* A constructor that starts the override table over.
runner_overrides_replaced(table, parameters) ==
    IF parameters = <<>> THEN table ELSE parameters[1]

\* __init__: `if parameters is not None: self.PARAMETERS_OVERRIDDEN.update(parameters)`
runner_overrides(table, parameters) ==
    IF parameters = <<>> THEN table ELSE DictUpdate(table, parameters[1])

\* __init__: the fields the new instance owns.
runner_fields(parameters) ==
    [alg |-> "None", env |-> "None", envP |-> environment_PARAMETERS,
     rs |-> [best |-> PyNone, last_saved |-> 0, hb_time |-> PyNone, hb_episode |-> PyNone],
     given |-> parameters]

\* UniRunner(parameters=...)
Construct ==
    /\ Len(runners) < MaxRunners
    /\ \E parameters \in OverrideArguments :
          /\ PARAMETERS_OVERRIDDEN' = runner_overrides(PARAMETERS_OVERRIDDEN, parameters)
          /\ runners' = Append(runners, runner_fields(parameters))
          /\ ret' = [op |-> "init", runner |-> Len(runners) + 1, exc |-> "none",
                     value |-> PyNone]
    /\ UNCHANGED <<os_environ, PARAMETERS, algorithm_CLEANERS, environment_CLEANERS,
                   algorithm_file, environment_file, pluginVars, pathVars, local, run_mode,
                   step, saveVars, heartbeatVars, now, pc, exc, loopVars, events,
                   last_request>>

\* The plugin state one runner's property accesses read and change: its own
\* cached plugins, and the algorithm class's PARAMETERS.
PluginsOf(r) == [alg |-> r.alg, env |-> r.env, algP |-> algorithm_PARAMETERS, envP |-> r.envP]

ResolveStep(i, name, outcome) ==
    /\ runners' = [runners EXCEPT ![i].alg = outcome.ps.alg, ![i].env = outcome.ps.env,
                                  ![i].envP = outcome.ps.envP]
    /\ algorithm_PARAMETERS' = outcome.ps.algP
    /\ ret' = [op |-> "parameter", runner |-> i, name |-> name, exc |-> outcome.exc,
               value |-> outcome.value]

\* runner.parameter(name) on one of the runners.
ResolveOn ==
    /\ \E i \in 1..Len(runners), name \in ParamNames :
          ResolveStep(i, name, parameter(name, PluginsOf(runners[i])))
    /\ UNCHANGED <<sourceVars, environment_PARAMETERS, _algorithm, _environment, pathVars,
                   local, run_mode, step, saveVars, heartbeatVars, now, pc, exc, loopVars,
                   events, last_request>>

\* self[name] for one of the runners.
SelfOf(r) == [name \in LookupNames |-> parameter(name, PluginsOf(r))]

OperateStep(i, op, outcome) ==
    /\ runners' = [runners EXCEPT ![i].rs = outcome.rs]
    /\ events' = outcome.events
    /\ ret' = [op |-> op, runner |-> i, exc |-> outcome.exc, value |-> PyNone]

\* runner.model_save(score, episode) or runner.update_episode_count(count,
\* force=True) on one of the runners whose plugins are loaded.
OperateOn ==
    /\ \E i \in 1..Len(runners) :
          /\ runners[i].alg = "loaded"
          /\ \/ \E score \in {PyFloat(40)} :
                   OperateStep(i, "model_save",
                               model_save(SelfOf(runners[i]), runners[i].rs, score, 21,
                                          QuietNet, now))
             \/ \E count \in {1} :
                   OperateStep(i, "update_episode_count",
                               update_episode_count(SelfOf(runners[i]), runners[i].rs, count,
                                                    TRUE, QuietNet, now, now))
    /\ UNCHANGED <<sourceVars, pluginVars, pathVars, local, run_mode, step, saveVars,
                   heartbeatVars, now, pc, exc, loopVars, last_request>>

RunnersInit ==
    /\ PARAMETERS_OVERRIDDEN = EmptyDict
    /\ os_environ = FullEnvironment
    /\ PARAMETERS = DefaultParameters
    /\ algorithm_PARAMETERS = [k \in {"MAX_STEPS"} |-> PyInt(2)]
    /\ environment_PARAMETERS = EmptyDict
    /\ algorithm_CLEANERS = [k \in {} |-> "int"]
    /\ environment_CLEANERS = [k \in {} |-> "int"]
    /\ algorithm_file = NoFile
    /\ environment_file = NoFile
    /\ algorithm_path = AlgorithmRef
    /\ environment_path = EnvironmentRef
    /\ NewRunner
    /\ local = FALSE
    /\ run_mode = "train"
    /\ render = FALSE
    /\ step = 0
    /\ runners = <<>>
    /\ now = 0
    /\ pc = "idle"
    /\ exc = "none"
    /\ episodes_rewards = <<>>
    /\ model_score = PyNone
    /\ episode = 0
    /\ episodes = 0
    /\ events = <<>>
    /\ trace = <<>>
    /\ last_request = <<>>
    /\ ret = [op |-> "none", exc |-> "none", value |-> FALSE]

RunnersNext == Construct \/ ResolveOn \/ OperateOn

SpecRunners == RunnersInit /\ [][RunnersNext]_vars

(***************************************************************************)
(* Properties of parameter(name).                                          *)
(***************************************************************************)
\* The five sources as a finished call of parameter(name) leaves them, by
\* precedence: 1 the overrides, 2 the process environment, 3 the runner's
\* defaults, 4 the algorithm's, 5 the environment's.
SourcesByPrecedence ==
    <<PARAMETERS_OVERRIDDEN, os_environ, PARAMETERS, algorithm_PARAMETERS,
      environment_PARAMETERS>>

\* A call of parameter(name) has ended with both plugins loaded.
ParameterCalled ==
    /\ ret.op = "parameter"
    /\ _algorithm = "loaded"
    /\ _environment = "loaded"

Holders(name) == {i \in 1..5 : name \in DOMAIN SourcesByPrecedence[i]}

CleanerRegistered(name) ==
    name \in DOMAIN PARAMETERS_CLEANERS \cup DOMAIN algorithm_CLEANERS
                \cup DOMAIN environment_CLEANERS

\* C1: parameter(name) finds the value of the first source holding the name,
\* in the order overrides, process environment, runner defaults, algorithm
\* defaults, environment defaults; the value of a later source is never
\* what the scan hands to the cleaner when an earlier source holds the name.
C1_Precedence ==
    ParameterCalled =>
        \A i \in Holders(ret.name) :
            (\A j \in Holders(ret.name) : i <= j)
                => ret.found = Returned(SourcesByPrecedence[i][ret.name])

\* C1 witness: overrides, environment and a plugin all hold the name with
\* different values, and the override's value was found.
C1_Witness ==
    /\ ParameterCalled
    /\ {1, 2, 4} \subseteq Holders(ret.name)
    /\ SourcesByPrecedence[1][ret.name] # SourcesByPrecedence[2][ret.name]
    /\ SourcesByPrecedence[1][ret.name] # SourcesByPrecedence[4][ret.name]
    /\ ret.found = Returned(SourcesByPrecedence[1][ret.name])

\* C2 as stated: a None in the first source holding the name resolves to
\* None, and parameter(name) raises a configuration error exactly when no
\* source holds the name.
C2_AsStated ==
    ParameterCalled =>
        /\ (ret.exc = "UniConfigurationError") <=> (Holders(ret.name) = {})
        /\ \A i \in Holders(ret.name) :
              /\ \A j \in Holders(ret.name) : i <= j
              /\ SourcesByPrecedence[i][ret.name] = PyNone
              => ret.exc = "none" /\ ret.value = PyNone

\* C2: presence is key membership. The scan raises a configuration error
\* exactly when no source holds the name; a None in the first source
\* holding the name is what the scan finds, and is what parameter(name)
\* returns when no cleaner is registered for the name; with the name held,
\* parameter(name) fails only by a registered cleaner rejecting the value,
\* which is a configuration error too.
C2_Membership ==
    ParameterCalled =>
        /\ (ret.found.exc = "UniConfigurationError") <=> (Holders(ret.name) = {})
        /\ Holders(ret.name) = {} => ret.exc = "UniConfigurationError"
        /\ ret.exc \in {"none", "UniConfigurationError"}
        /\ Holders(ret.name) # {} /\ ~CleanerRegistered(ret.name) => ret.exc = "none"
        /\ \A i \in Holders(ret.name) :
              /\ \A j \in Holders(ret.name) : i <= j
              /\ SourcesByPrecedence[i][ret.name] = PyNone
              => /\ ret.found = Returned(PyNone)
                 /\ ~CleanerRegistered(ret.name) => ret.exc = "none" /\ ret.value = PyNone

\* C2 witness: the overrides hold None for a name without a cleaner, a
\* later source holds another value, and None was returned.
C2_Witness ==
    /\ ParameterCalled
    /\ 1 \in Holders(ret.name)
    /\ PARAMETERS_OVERRIDDEN[ret.name] = PyNone
    /\ \E j \in Holders(ret.name) : SourcesByPrecedence[j][ret.name] # PyNone
    /\ ~CleanerRegistered(ret.name)
    /\ ret.exc = "none"
    /\ ret.value = PyNone

\* The three cleaner tables in the order parameter(name) consults them.
CleanersByPrecedence == <<PARAMETERS_CLEANERS, algorithm_CLEANERS, environment_CLEANERS>>

CleanerHolders(name) == {i \in 1..3 : name \in DOMAIN CleanersByPrecedence[i]}

\* The cleaner selected for the name: the one of the first table holding it.
SelectedCleaner(name) ==
    CleanersByPrecedence[CHOOSE i \in CleanerHolders(name) :
                            \A j \in CleanerHolders(name) : i <= j][name]

\* A call of parameter(name) has found a value for the name.
ParameterFound == ParameterCalled /\ ret.found.exc = "none"

\* C19: the value parameter(name) returns is the found value passed once
\* through the cleaner of the first of runner, algorithm and environment
\* cleaners holding the name, whatever the later tables hold; and it is the
\* found value itself when no table holds the name.
C19_OneCleaner ==
    ParameterFound =>
        IF CleanerHolders(ret.name) = {}
        THEN ret.exc = "none" /\ ret.value = ret.found.value
        ELSE LET cleaned == ApplyCleaner(SelectedCleaner(ret.name), ret.found.value)
             IN  IF cleaned.exc = "none"
                 THEN ret.exc = "none" /\ ret.value = cleaned.value
                 ELSE ret.exc # "none"

\* The algorithm's and the environment's cleaners both hold the name and
\* disagree on the found value 0: int keeps it, type_or_none(int) turns it
\* into None; the algorithm's cleaner was the one applied.
C19_Witness ==
    /\ ParameterFound
    /\ CleanerHolders(ret.name) = {2, 3}
    /\ ret.found.value = PyInt(0)
    /\ ApplyCleaner(environment_CLEANERS[ret.name], ret.found.value) = Returned(PyNone)
    /\ ret.exc = "none"
    /\ ret.value = PyInt(0)

\* The cleaner selected for the name has raised on the found value.
CleanerRaised ==
    /\ ParameterFound
    /\ CleanerHolders(ret.name) # {}
    /\ ApplyCleaner(SelectedCleaner(ret.name), ret.found.value).exc # "none"

\* C20: when the selected cleaner raises on the found value, parameter(name)
\* raises a configuration error: not the cleaner's own exception, and no
\* value is returned, neither the uncleaned one nor the one a cleaner of a
\* later table would have made of it.
C20_CleanerFailure ==
    CleanerRaised =>
        /\ ret.exc = "UniConfigurationError"
        /\ ret.exc # ApplyCleaner(SelectedCleaner(ret.name), ret.found.value).exc
        /\ ret.value = PyNone

\* int, the algorithm's cleaner, raised TypeError on the found value None,
\* which the environment's cleaner for the same name would have accepted.
C20_Witness ==
    /\ CleanerRaised
    /\ CleanerHolders(ret.name) = {2, 3}
    /\ ret.found.value = PyNone
    /\ ApplyCleaner(SelectedCleaner(ret.name), ret.found.value).exc = "TypeError"
    /\ ApplyCleaner(environment_CLEANERS[ret.name], ret.found.value).exc = "none"
    /\ ret.exc = "UniConfigurationError"

\* What the call recorded in ret returned or raised.
Resolved == [exc |-> ret.exc, value |-> ret.value]

\* The sources no call of parameter(name) touches, and the runner's run state.
fixedVars ==
    <<PARAMETERS_OVERRIDDEN, os_environ, PARAMETERS, algorithm_CLEANERS,
      environment_CLEANERS, algorithm_file, environment_file, saveVars, heartbeatVars>>

\* C21 as stated: a call of parameter(name) leaves what every later call
\* returns or raises as it was, and changes none of the five sources nor the
\* runner's run state.
C21_AsStated ==
    /\ [](ret.op = "parameter" => ret.after = ret.before /\ Resolved = ret.after[ret.name])
    /\ [][UNCHANGED <<fixedVars, algorithm_PARAMETERS, environment_PARAMETERS>>]_vars

\* C21: resolution is idempotent in what it returns: a call returns or
\* raises what a call of the same name returns or raises after it, and
\* leaves what a call of any name gives as it was before.  It changes
\* neither the overrides, the process environment, the runner's defaults,
\* the cleaner tables nor the run state; the two plugin sources change only
\* while a plugin is still to be constructed (the algorithm's file is merged
\* into its class PARAMETERS, the environment's file becomes its
\* PARAMETERS), never once both plugins are cached.
C21_Idempotent ==
    /\ [](ret.op = "parameter" => ret.after = ret.before /\ Resolved = ret.after[ret.name])
    /\ [][/\ UNCHANGED fixedVars
          /\ _algorithm = "loaded" /\ _environment = "loaded" => UNCHANGED pluginVars]_vars

\* A call has constructed the algorithm, whose PARAMETERS now hold the
\* MAX_STEPS of its parameters file: the call changed the fourth source.
C21_Witness ==
    /\ ParameterCalled
    /\ algorithm_file.state = "ok"
    /\ "MAX_STEPS" \in DOMAIN algorithm_PARAMETERS
    /\ algorithm_PARAMETERS["MAX_STEPS"] = PyInt(0)
    /\ ret.exc = "none"

(***************************************************************************)
(* Properties of the checkpoint policy and of model_save.                  *)
(***************************************************************************)
\* The statement `if should_save_model(score, episode): model_save(...)` has
\* been executed.
Decided == ret.op = "decide_and_save"

\* MODEL_SAVE_FREQUENCY as the sources give it.
Spacing ==
    IF "MODEL_SAVE_FREQUENCY" \in DOMAIN PARAMETERS_OVERRIDDEN
    THEN DigitsValue(PARAMETERS_OVERRIDDEN["MODEL_SAVE_FREQUENCY"].s)
    ELSE PARAMETERS["MODEL_SAVE_FREQUENCY"].n

\* The positions in `events` of the calls named op.
Positions(op) == {i \in 1..Len(events) : events[i].op = op}

FreshState == [best |-> PyNone, last_saved |-> 0]

SavedState(score, number) == [best |-> score, last_saved |-> number]

SaveState(rs) == [best |-> rs.best, last_saved |-> rs.last_saved]

\* C3: should_save_model(score, episode) is true if and only if episode
\* minus the last-saved episode is strictly greater than
\* MODEL_SAVE_FREQUENCY and the last-saved score is unset or score is
\* strictly greater than it.  With spacing 20, from last-saved episode 0 and
\* no score: (21, 5.0) is true and saves; after that save (25, 6.0) is false
\* and (42, 4.0) is false.
C3_Decision ==
    Decided =>
        /\ ret.value <=>
              /\ ret.episode - ret.before.last_saved > Spacing
              /\ (ret.before.best = PyNone \/ ret.score.n > ret.before.best.n)
        /\ Spacing = 20 /\ SaveState(ret.before) = FreshState
              /\ ret.episode = 21 /\ ret.score = PyFloat(50)
              => /\ ret.value
                 /\ Positions("save") # {}
                 /\ ret.exc # "PluginError"
                        => SaveState(RunState) = SavedState(PyFloat(50), 21)
        /\ Spacing = 20 /\ SaveState(ret.before) = SavedState(PyFloat(50), 21)
              /\ ret.episode = 25 /\ ret.score = PyFloat(60)
              => ~ret.value /\ events = <<>>
        /\ Spacing = 20 /\ SaveState(ret.before) = SavedState(PyFloat(50), 21)
              /\ ret.episode = 42 /\ ret.score = PyFloat(40)
              => ~ret.value /\ events = <<>>

\* C3 witness: after the save at (21, 5.0), the call with (42, 4.0) has been
\* decided: the spacing is met, the score is not greater, nothing is saved.
C3_Witness ==
    /\ Decided
    /\ Spacing = 20
    /\ SaveState(ret.before) = SavedState(PyFloat(50), 21)
    /\ ret.episode = 42
    /\ ret.score = PyFloat(40)
    /\ ~ret.value
    /\ SaveState(RunState) = SavedState(PyFloat(50), 21)

\* model_save ran in non-local mode, the plugin saved, and the score POST
\* was answered with a status.
Posted ==
    /\ Decided
    /\ ~local
    /\ Len(events) >= 2
    /\ events[2].op = "POST score"
    /\ events[2].result # "raise"

\* C9 as stated: on 201 the archive is PUT and then the PATCH with the
\* returned model id is sent; on 204 neither; on any other status neither,
\* and model_save does not raise.
C9_AsStated ==
    Posted =>
        /\ events[2].result = "201"
              => /\ Len(events) = 4
                 /\ events[3].op = "PUT archive"
                 /\ events[4].op = "PATCH uploaded"
                 /\ events[4].arg = PyInt(ret.answers.id)
        /\ events[2].result # "201"
              => Len(events) = 2 /\ ret.exc = "none"

\* C9: model_save publishes by the status of the score POST.  On 201 the
\* archive, once built, is PUT, and the PATCH with the returned model id
\* follows exactly when the PUT is answered 200; when building the archive
\* raises there is no PUT and no PATCH.  On 204 neither is issued.  On any
\* other status neither is issued and model_save does not raise.
C9_Publication ==
    Posted =>
        /\ events[2].result = "201" /\ ret.answers.tar = "ok"
              => /\ Len(events) >= 3
                 /\ events[3].op = "PUT archive"
                 /\ events[3].result = "200"
                       => /\ Len(events) = 4
                          /\ events[4].op = "PATCH uploaded"
                          /\ events[4].arg = PyInt(ret.answers.id)
                 /\ events[3].result # "200" => Len(events) = 3
        /\ events[2].result = "201" /\ ret.answers.tar = "raise"
              => Len(events) = 2 /\ ret.exc = "FileNotFoundError"
        /\ events[2].result = "204" => Len(events) = 2
        /\ events[2].result \notin {"201", "204"}
              => Len(events) = 2 /\ ret.exc = "none"

\* C9 witness: the POST was answered 201, the PUT 200, and the PATCH for
\* model 8 went out last.
C9_Witness ==
    /\ Posted
    /\ events[2].result = "201"
    /\ Len(events) = 4
    /\ events[3] = Event("PUT archive", PyNone, "200", now)
    /\ events[4].op = "PATCH uploaded"
    /\ events[4].arg = PyInt(8)

\* C10: model_save first calls the plugin's save, then sets the last-saved
\* score and episode to its arguments, and only then, and only when not
\* local, sends the score POST; when the plugin's save raises, the
\* last-saved score and episode stay as they were and no request is sent.
C10_SaveOrder ==
    Decided /\ ret.value =>
        /\ events # <<>>
        /\ Positions("save") = {1}
        /\ events[1].result = "raise"
              => /\ SaveState(RunState) = SaveState(ret.before)
                 /\ Len(events) = 1
                 /\ ret.exc = "PluginError"
        /\ events[1].result = "ok"
              => /\ SaveState(RunState) = SavedState(ret.score, ret.episode)
                 /\ local => Len(events) = 1
                 /\ ~local => /\ Len(events) >= 2
                              /\ Positions("POST score") = {2}
                              /\ events[2].arg = ret.score

\* C10 witness: the plugin's save raised on a runner that had saved before;
\* the earlier last-saved score and episode are still there.
C10_Witness ==
    /\ Decided
    /\ ret.value
    /\ ~local
    /\ events = <<Event("save", PARAMETERS["UNI_MODEL_DIR"], "raise", now)>>
    /\ ret.before.best # PyNone
    /\ SaveState(RunState) = SaveState(ret.before)
    /\ SaveState(RunState) # SavedState(ret.score, ret.episode)

\* C25: the PATCH that marks a model as uploaded is sent only after a score
\* POST answered 201 and an archive PUT answered 200, in that order, and
\* names the model id that POST returned; when the PUT is answered with any
\* other status no PATCH is sent, model_save returns, and the last-saved
\* score and episode are the ones of this save.
C25_UploadMark ==
    Decided =>
        /\ \A i \in Positions("PATCH uploaded") :
              /\ \E p \in Positions("POST score"), u \in Positions("PUT archive") :
                    /\ p < u
                    /\ u < i
                    /\ events[p].result = "201"
                    /\ events[u].result = "200"
              /\ events[i].arg = PyInt(ret.answers.id)
        /\ \A u \in Positions("PUT archive") :
              events[u].result \notin {"200", "raise"}
                 => /\ Positions("PATCH uploaded") = {}
                    /\ ret.exc = "none"
                    /\ SaveState(RunState) = SavedState(ret.score, ret.episode)

\* The PUT of a second save was answered 500: no PATCH followed, model_save
\* returned, and the last-saved score and episode are those of this save.
C25_Witness ==
    /\ Decided
    /\ ret.before.best # PyNone
    /\ \E u \in Positions("PUT archive") : events[u].result = "500"
    /\ Positions("PATCH uploaded") = {}
    /\ ret.exc = "none"
    /\ SaveState(RunState) = SavedState(ret.score, ret.episode)
    /\ SaveState(RunState) # SaveState(ret.before)

(***************************************************************************)
(* Properties of the training run.                                         *)
(***************************************************************************)
\* The last step was the loop body at a yield; the last step was the two
\* statements after the loop.
AtDecisionPoint == ret.op = "loop_body"

AfterTheLoop == ret.op = "after_loop"

\* The plugin's save was called in the last step, after an earlier save.
SavedAgain == Positions("save") # {} /\ ret.before.best # PyNone

\* C4 as stated: two consecutive saves are at episodes more than
\* MODEL_SAVE_FREQUENCY apart, and a save happens only at a decision point
\* where should_save_model returned true.
C4_AsStated ==
    (AtDecisionPoint \/ AfterTheLoop) /\ Positions("save") # {} =>
        /\ AtDecisionPoint /\ ret.value
        /\ SavedAgain => episode - ret.before.last_saved > Spacing

\* C4: within the loop a save happens only at a decision point where
\* should_save_model returned true, and never where it returned false; two
\* consecutive saves of the loop are at episodes more than
\* MODEL_SAVE_FREQUENCY apart.  The save after the loop is not decided: it
\* is made whenever the loop and the forced heartbeat have ended without an
\* exception, at the last episode, whatever the spacing and the score.
C4_LoopSaves ==
    /\ AtDecisionPoint /\ Positions("save") # {}
          => /\ ret.value
             /\ episode - ret.before.last_saved > Spacing
    /\ AtDecisionPoint /\ ~ret.value => Positions("save") = {}
    /\ AfterTheLoop /\ ret.exc = "none"
          => /\ Positions("save") # {}
             /\ episode = Len(episodes_rewards)
             /\ _last_episode_number_saved = episode

\* C4 witness: the loop saved a second time, more than the spacing after
\* its first save.
C4_Witness ==
    /\ AtDecisionPoint
    /\ SavedAgain
    /\ ret.value
    /\ ret.before.last_saved > 0
    /\ _last_episode_number_saved = episode
    /\ episode - ret.before.last_saved > Spacing

\* The requests the runner sends to the service.
RemoteOps == {"PATCH episodes", "POST score", "PUT archive", "PATCH uploaded", "POST finish"}

\* A request of the last step raised.
RemoteCallRaised ==
    \E i \in DOMAIN events : events[i].op \in RemoteOps /\ events[i].result = "raise"

\* C5 as stated: a remote call that raises never changes the outcome of the
\* run: the loop goes on to the next episode, run_training ends normally,
\* and nothing propagates out of run().
C5_AsStated == RemoteCallRaised => pc \in {"suspended", "returned", "done"}

\* C5 witness: a heartbeat PATCH raised in the loop, run_training ended
\* with that exception, the finish notification reported failed=true and
\* the exception left run().
C5_Witness ==
    /\ ret.op = "run"
    /\ ret.raised = "ConnectionError"
    /\ events = <<Event("POST finish", PyBool(TRUE), "200", now)>>
    /\ pc = "propagated"
    /\ exc = "ConnectionError"
    /\ last_request # <<>>
    /\ last_request[1].result = "raise"

\* run() has ended, in non-local mode.
RunEnded == ret.op = "run" /\ ~local

\* C6 as stated: a non-local training run issues exactly one finish
\* notification, with failed=true if run_training raised and failed=false
\* otherwise, and when run_training raised, its exception is what leaves
\* the inner handler.
C6_AsStated ==
    RunEnded =>
        /\ Len(events) = 1
        /\ events[1].op = "POST finish"
        /\ events[1].arg = PyBool(ret.raised # "none")
        /\ ret.raised # "none" => ret.exc = ret.raised

\* C6 witness: the algorithm's train raised, the finish notification with
\* failed=true raised too, and the notification's exception left run().
C6_Witness ==
    /\ RunEnded
    /\ ret.raised = "PluginError"
    /\ events = <<Event("POST finish", PyBool(TRUE), "raise", now)>>
    /\ ret.exc = "ConnectionError"
    /\ pc = "propagated"

(***************************************************************************)
(* Properties of update_episode_count.                                     *)
(***************************************************************************)
\* update_episode_count(count, force) has been called in non-local mode.
Updated == ret.op = "update_episode_count" /\ ~local

HeartbeatState(rs) == [hb_time |-> rs.hb_time, hb_episode |-> rs.hb_episode]

\* The condition of the claim, on the state the call found: the count
\* differs from the last reported one, and the call is forced, or nothing
\* was reported before, or more than 5 seconds have elapsed.
HeartbeatDue ==
    /\ ret.before.hb_episode # PyInt(ret.count)
    /\ \/ ret.force
       \/ ret.before.hb_time = PyNone
       \/ ret.checked - ret.before.hb_time.n > HeartbeatSeconds

\* Every parameter the request is built from is held by some source.
ApiConfigured == \A k \in ApiNames : Holders(k) # {}

BeatAfterBeat == ret.op = "update_episode_count" /\ Beats(events) # <<>> /\ ret.previous # <<>>

\* C8: over calls of update_episode_count at non-decreasing times, a
\* request caused by a non-forced call comes more than 5 seconds after the
\* previous request, no two consecutive requests carry the same count, and
\* of two calls with the same count, 1 second apart, at most one issues a
\* request.
C8_Throttle ==
    /\ BeatAfterBeat /\ ~ret.force
          => events[1].at - ret.previous[1].at > HeartbeatSeconds
    /\ BeatAfterBeat => events[1].arg # ret.previous[1].arg
    /\ ret.op = "update_episode_count" /\ ret.earlier # <<>>
          /\ ret.earlier[1].count = ret.count /\ ret.earlier[1].sent
          => Beats(events) = <<>>

\* C8 witness: a non-forced call issued a request with another count, more
\* than 5 seconds after the previous request.
C8_Witness ==
    /\ BeatAfterBeat
    /\ ~ret.force
    /\ events[1].arg # ret.previous[1].arg
    /\ events[1].at - ret.previous[1].at > HeartbeatSeconds
    /\ ret.earlier # <<>>
    /\ ~ret.earlier[1].sent

(***************************************************************************)
(* Properties of the training generator and the loop that drives it.       *)
(***************************************************************************)
\* The episode budget and the step limit of the run, as its sources give
\* them: EPISODES is set on the command line, MAX_STEPS by the algorithm.
Budget == DigitsValue(PARAMETERS_OVERRIDDEN["EPISODES"].s)

StepLimit == algorithm_PARAMETERS["MAX_STEPS"].n

SameStep(a, b) == a.episode = b.episode /\ a.step = b.step

\* Hook call b may come right after hook call a.
Follows(a, b) ==
    CASE a.hook = "prepare" -> b.hook = "reset" /\ b.episode = 1
      [] a.hook = "reset" -> b.hook = "pre_episode" /\ b.episode = a.episode
      [] a.hook = "pre_episode" ->
            IF StepLimit = 0 THEN b.hook = "post_episode" /\ b.episode = a.episode
            ELSE b.hook = "action_train" /\ b.episode = a.episode /\ b.step = 1
      [] a.hook = "action_train" -> b.hook = "step" /\ SameStep(a, b)
      [] a.hook = "step" ->
            b.hook = "post_step" /\ SameStep(a, b) /\ b.done = a.done /\ b.reward = a.reward
      [] a.hook = "post_step" ->
            IF a.done \/ a.step = StepLimit
            THEN b.hook = "post_episode" /\ b.episode = a.episode
            ELSE b.hook = "action_train" /\ b.episode = a.episode /\ b.step = a.step + 1
      [] a.hook = "post_episode" -> b.hook = "decision" /\ b.episode = a.episode
      [] a.hook = "decision" -> b.hook = "reset" /\ b.episode = a.episode + 1
      [] OTHER -> FALSE

\* C11: the hook trace of a training run: prepare once and first; then per
\* episode 1, 2, ... up to EPISODES: reset, pre_episode, then action_train,
\* step, post_step per step until step answers done or MAX_STEPS steps were
\* made, then post_episode once, then one decision point; the hooks of the
\* next episode come only after that decision point.  The trace of a run
\* that ended without an exception is complete up to the last episode.
C11_HookTrace ==
    /\ trace # <<>> => trace[1].hook = "prepare"
    /\ \A i \in 2..Len(trace) : trace[i].hook # "prepare"
    /\ \A i \in 1..(Len(trace) - 1) : Follows(trace[i], trace[i + 1])
    /\ \A i \in 1..Len(trace) : trace[i].episode <= Budget
    /\ pc = "yielded" =>
          /\ trace[Len(trace)].hook = "post_episode"
          /\ trace[Len(trace)].episode = Len(episodes_rewards)
    /\ pc \in {"returned", "done"} =>
          /\ trace[Len(trace)].hook = "decision"
          /\ trace[Len(trace)].episode = Budget

\* C11 witness: a run of two episodes has returned; the first episode ended
\* at its first step, which answered done, the second after MAX_STEPS steps
\* without done.
C11_Witness ==
    /\ pc = "returned"
    /\ Budget = 2
    /\ \E i \in 1..Len(trace) :
          /\ trace[i] = Hook("post_step", 1, 1, StepResult(1, TRUE))
          /\ trace[i + 1].hook = "post_episode"
    /\ \E i \in 1..Len(trace) :
          /\ trace[i] = Hook("post_step", 2, StepLimit, StepResult(2, FALSE))
          /\ trace[i + 1].hook = "post_episode"
    /\ Len(trace) = 1 + 7 + 10

\* The calls of environment.step in episode k, and what they add up to.
StepsOf(k) == SelectSeq(trace, LAMBDA h : h.hook = "step" /\ h.episode = k)

StepRewards(steps) == SeqSum([i \in 1..Len(steps) |-> steps[i].reward])

\* The number of episodes that ran to their post_episode.
Completed == Len(SelectSeq(trace, LAMBDA h : h.hook = "post_episode"))

EntriesAreSums ==
    \A k \in 1..Len(episodes_rewards) : episodes_rewards[k] = StepRewards(StepsOf(k))

\* C12 as stated: every entry of the reward history is the sum of the step
\* rewards of its episode and the length of the history is the number of
\* completed episodes.
C12_AsStated == EntriesAreSums /\ Len(episodes_rewards) = Completed

\* C12: the reward history is append-only: its length never decreases and
\* no entry changes once its episode has ended; every entry is the sum of
\* the step rewards of its episode; at every yield and decision point the
\* length is the number of completed episodes, so the k-th decision point
\* sees k entries.  An episode that was started and not completed (one that
\* raised) has its entry already, so the length is then one more than the
\* number of completed episodes.
C12_RewardHistory ==
    /\ [](/\ EntriesAreSums
          /\ Len(episodes_rewards) \in {Completed, Completed + 1}
          /\ pc \in {"yielded", "suspended", "exhausted", "returned", "done"}
                => Len(episodes_rewards) = Completed
          /\ trace # <<>> /\ trace[Len(trace)].hook = "decision"
                => /\ trace[Len(trace)].episode = Len(episodes_rewards)
                   /\ Len(episodes_rewards) = Completed
          /\ Len(episodes_rewards) = Completed + 1
                => pc \in {"except", "exit1", "exit2", "propagated"})
    /\ [][/\ Len(episodes_rewards') >= Len(episodes_rewards)
          /\ \A k \in 1..Len(episodes_rewards) : episodes_rewards'[k] = episodes_rewards[k]]_vars

\* C12 witness: the third decision point has been passed with three
\* entries, the sums of episodes of one and of two steps.
C12_Witness ==
    /\ trace # <<>>
    /\ trace[Len(trace)] = Hook("decision", 3, 0, NoAnswer)
    /\ pc = "suspended"
    /\ Len(episodes_rewards) = 3
    /\ Completed = 3
    /\ episodes_rewards[1] = 1
    /\ episodes_rewards[2] = 3
    /\ Len(StepsOf(2)) = 2

\* The plugin's save was called in the last step and returned.
SaveReturned == \E i \in Positions("save") : events[i].result = "ok"

\* C13: across a training run the last-saved episode never decreases: a
\* save sets it to the episode it was called for, which is at least the
\* last-saved episode before, and nothing else changes it.
C13_LastSavedMonotonic ==
    /\ [](SaveReturned /\ (AtDecisionPoint \/ AfterTheLoop)
            => /\ _last_episode_number_saved = episode
               /\ _last_episode_number_saved >= ret.before.last_saved)
    /\ [][_last_episode_number_saved' >= _last_episode_number_saved]_vars
    /\ [][_last_episode_number_saved' # _last_episode_number_saved
            => \E i \in 1..Len(events') : events'[i].op = "save"]_vars

\* C13 witness: the save after the loop was made for the episode the loop
\* had saved last: the last-saved episode stayed where it was.
C13_Witness ==
    /\ AfterTheLoop
    /\ SaveReturned
    /\ ret.before.last_saved = 2
    /\ _last_episode_number_saved = 2

\* What a hook, a request or the building of the archive raises when it
\* fails.
OutsideFailures == {"PluginError", "ConnectionError", "FileNotFoundError"}

\* The two statements after the loop have run, no hook, no request and no
\* archive of the run has failed, and the API parameters, where needed, are
\* there.
LoopEndedQuietly ==
    /\ AfterTheLoop
    /\ ret.exc \notin OutsideFailures
    /\ local \/ ApiConfigured

\* C14 as stated: for every episode budget N >= 0, a training run in which
\* nothing raises completes exactly N episodes and run_training returns
\* normally.
C14_AsStated == LoopEndedQuietly => ret.exc = "none" /\ pc = "returned" /\ Completed = Budget

\* C14 witness: with a budget of 0 episodes prepare ran, no episode did,
\* and run_training ended with UnboundLocalError.
C14_Witness ==
    /\ LoopEndedQuietly
    /\ Budget = 0
    /\ trace = <<Hook("prepare", 0, 0, NoAnswer)>>
    /\ events = <<>>
    /\ pc = "except"
    /\ exc = "UnboundLocalError"

(***************************************************************************)
(* Properties of run() in the other modes.                                 *)
(***************************************************************************)
\* The hooks run_model has called after the first one.
LaterHooks == {i \in 2..Len(trace) : TRUE}

\* Pass `i` of the trace is followed by the next pass of the same episode's
\* step loop: render when rendering, else action, one step further.
NextPassFollows(i) ==
    /\ trace[i + 1].hook = (IF render THEN "render" ELSE "action")
    /\ trace[i + 1].episode = trace[i].episode
    /\ trace[i + 1].step = trace[i].step + 1

\* C15: in mode 'run' the persisted model is loaded exactly once, before
\* anything else; after it only reset, render, action and step are called
\* (never action_train, never save), render only when asked for; no request
\* is sent and the checkpoint and heartbeat records stay as the constructor
\* left them; run() never returns, it is left only by an exception; and a
\* step loop goes on after every step that is not done, whatever the step
\* limit, and gives way to the next episode's reset only after a done step.
C15_RunModel ==
    run_mode = "run" =>
        /\ trace # <<>> => trace[1].hook = "load"
        /\ \A i \in LaterHooks :
              /\ trace[i].hook \in {"reset", "action", "step"} \cup
                                   (IF render THEN {"render"} ELSE {})
              /\ trace[i].hook = "reset" /\ i > 2 =>
                    trace[i - 1].hook = "step" /\ trace[i - 1].done
              /\ trace[i].hook = "step" /\ i < Len(trace) =>
                    IF trace[i].done THEN trace[i + 1].hook = "reset"
                    ELSE NextPassFollows(i)
        /\ events = <<>>
        /\ last_request = <<>>
        /\ RunState = [best |-> PyNone, last_saved |-> 0, hb_time |-> PyNone,
                       hb_episode |-> PyNone]
        /\ pc # "done"
        /\ pc \in {"exit1", "exit2", "propagated"} => exc # "none"

\* The second episode of a rendered run is in its third step, one more than
\* the step limit of training, after a first episode that ended on done.
C15_Witness ==
    /\ run_mode = "run"
    /\ render
    /\ pc = "model_stepping"
    /\ episode = 2
    /\ step > StepLimit
    /\ trace[Len(trace)].hook = "step"
    /\ ~trace[Len(trace)].done

\* run() is over: it returned, the process exited, or an exception left it.
RunOver == ret.op = "run" /\ pc \in {"done", "exit1", "exit2", "propagated"}

\* C17 as stated: in every mode, when the dispatch raised UniFatalError the
\* process ends with code 1, when it raised UniConfigurationError (a missing
\* or malformed parameter, a missing plugin reference, an unknown run mode)
\* it ends with code 2, and when it raised nothing run() returns normally.
C17_AsStated ==
    RunOver =>
        /\ ret.raised = "UniFatalError" => pc = "exit1"
        /\ ret.raised = "UniConfigurationError" => pc = "exit2"
        /\ ret.raised = "none" => pc = "done"

\* A training run failed with a configuration error, the finish notification
\* raised in its turn, and run() was left by that exception instead of
\* exiting with code 2.
C17_Witness ==
    /\ RunOver
    /\ run_mode = "train"
    /\ ret.raised = "UniConfigurationError"
    /\ ret.exc = "ConnectionError"
    /\ pc = "propagated"

\* run_training failed before the algorithm was loaded: loading the plugins
\* is what raised.
LoadingFailed == run_mode = "train" /\ pc = "except" /\ _algorithm = "None"

\* One of the two references is missing, names a module that cannot be
\* imported, or names an attribute its module does not have.
BadReference == algorithm_path # AlgorithmRef \/ environment_path # EnvironmentRef

\* C18 as stated: loading the algorithm or the environment by a reference
\* that is missing, cannot be imported or names a missing attribute fails
\* with a configuration error.
C18_AsStated == LoadingFailed /\ BadReference => exc = "UniConfigurationError"

\* The algorithm's reference names a module that cannot be imported, and
\* run_training failed with the import's own error.
C18_Witness ==
    /\ LoadingFailed
    /\ algorithm_path = PyStr(<<"m", ".", "D">>)
    /\ exc = "ModuleNotFoundError"

(***************************************************************************)
(* Properties of get_model_score.                                          *)
(***************************************************************************)
Scored == ret.op = "get_model_score"

\* The window size the runner is configured with.
Window == parameter("MODEL_SAVE_BEST_LAST_MEAN", PluginState).value.n

\* The last `w` entries of a history, all of them when it has fewer.
LastEntries(history, w) ==
    SubSeq(history, (IF w > Len(history) THEN 0 ELSE Len(history) - w) + 1, Len(history))

\* `tenths` tenths is a nearest one-decimal value of the mean of `entries`.
IsRoundedMean(tenths, entries) ==
    LET off == 10 * SeqSum(entries) - tenths * Len(entries)
    IN  entries # <<>> /\ 2 * off <= Len(entries) /\ 2 * (0 - off) <= Len(entries)

\* C16 as stated: for every non-empty history and every configured window
\* size the score is the mean of the last MODEL_SAVE_BEST_LAST_MEAN entries
\* (of all entries when there are fewer) rounded to one decimal, 4.0 for
\* [1,2,3,4,5] with window 3, and the history is left as it was.
C16_AsStated ==
    Scored =>
        /\ ret.exc = "none"
        /\ ret.value.t = "float"
        /\ IsRoundedMean(ret.value.n, LastEntries(ret.rewards, Window))
        /\ ret.rewards = <<1, 2, 3, 4, 5>> /\ Window = 3 => ret.value = PyFloat(40)
        /\ episodes_rewards = ret.rewards

\* A runner configured with window -1 has scored a history of one episode:
\* the score is nan.
C16_Witness ==
    /\ Scored
    /\ Window = -1
    /\ Len(ret.rewards) = 1
    /\ ret.value = PyNaN

(***************************************************************************)
(* Properties of whole training runs.                                      *)
(***************************************************************************)
\* C22: while the runner is local no step of a training run issues a remote
\* call: the only call out of the runner is algorithm.save; a model_save
\* that returned has recorded its score and episode and nothing else; the
\* heartbeat record stays as the constructor left it and no heartbeat was
\* sent, forced or not; and run() ends, on success and on failure, without
\* a finish notification.
C22_LocalIsSilent ==
    local =>
        /\ \A i \in 1..Len(events) : events[i].op = "save"
        /\ Len(events) <= 1
        /\ last_request = <<>>
        /\ _last_update_episode_time = PyNone
        /\ _last_update_episode = PyNone
        /\ SaveReturned =>
              /\ _best_last_saved_model_score = model_score
              /\ _last_episode_number_saved = episode
        /\ ret.op = "run" => events = <<>> /\ ret.exc = ret.raised

\* A local run of three episodes has saved in the loop and after it, and
\* run() has returned.
C22_Witness ==
    /\ local
    /\ pc = "done"
    /\ ret.op = "run"
    /\ Len(episodes_rewards) = 3
    /\ _last_episode_number_saved = 3
    /\ \E i \in 1..Len(trace) : trace[i].hook = "decision"

\* C23 as stated: every save of a training run, the one after the loop
\* included, stores a score strictly greater than the score stored before
\* it, or is the first save.
C23_AsStated ==
    [][SaveReturned' =>
          \/ _best_last_saved_model_score = PyNone
          \/ FloatGreater(_best_last_saved_model_score', _best_last_saved_model_score)]_vars

\* C23: a save made inside the loop stores the score of its decision point,
\* which is strictly greater than the score stored before it unless it is
\* the first save; the save after the loop stores the score of the last
\* decision point whatever the stored score is; and the stored score
\* changes in no step without a save.
C23_LoopScoresRise ==
    /\ [][SaveReturned' =>
             IF pc = "yielded"
             THEN /\ _best_last_saved_model_score' = model_score'
                  /\ \/ _best_last_saved_model_score = PyNone
                     \/ FloatGreater(_best_last_saved_model_score',
                                     _best_last_saved_model_score)
             ELSE /\ pc = "exhausted"
                  /\ _best_last_saved_model_score' = model_score]_vars
    /\ [][_best_last_saved_model_score' # _best_last_saved_model_score
             => SaveReturned']_vars

\* The save after the loop has stored a score lower than the one the loop
\* had stored.
C23_Witness ==
    /\ AfterTheLoop
    /\ SaveReturned
    /\ FloatGreater(ret.before.best, _best_last_saved_model_score)

\* A training run that reports to the service has finished: run_training
\* has returned, after at least one episode.
Finished == ~local /\ pc \in {"returned", "done"} /\ Len(episodes_rewards) >= 1

\* C24: when a training run that is not local has finished, the last
\* reported episode count is the number of completed episodes, and so is the
\* count of the last heartbeat request sent; the forced update after the
\* loop has sent a request exactly when that count was not the one recorded
\* before it, whatever time had passed since the last heartbeat.
C24_FinalCount ==
    Finished =>
        /\ Completed = Len(episodes_rewards)
        /\ _last_update_episode = PyInt(Completed)
        /\ last_request # <<>>
        /\ last_request[1].arg = PyInt(Completed)
        /\ pc = "returned" =>
              (Beats(events) # <<>> <=> ret.before.hb_episode # PyInt(Completed))

\* The forced update has sent the final count although the last heartbeat
\* was less than the interval ago.
C24_Witness ==
    /\ Finished
    /\ pc = "returned"
    /\ Beats(events) # <<>>
    /\ ret.before.hb_time # PyNone
    /\ Beats(events)[1].at - ret.before.hb_time.n <= HeartbeatSeconds
    /\ Beats(events)[1].arg = PyInt(Completed)

\* update_episode_count has raised, in the loop body or after the loop.
HeartbeatRaised ==
    /\ pc = "except"
    /\ ret.exc # "none"
    /\ \/ ret.op = "loop_body" /\ ret.raised_in = "update_episode_count"
       \/ AfterTheLoop /\ episodes_rewards # <<>> /\ Positions("save") = {}

\* C26: when update_episode_count raises, while looking up what the request
\* needs or while sending it, the count and the time of this call are
\* already recorded as the last reported ones although no request was
\* answered; and the recorded count and time change in no step of a run but
\* one in which a runner that is not local reaches update_episode_count,
\* which sets them to the count and the time of that call.
C26_RecordedFirst ==
    /\ [](HeartbeatRaised =>
             /\ _last_update_episode = PyInt(Len(episodes_rewards))
             /\ _last_update_episode # ret.before.hb_episode
             /\ _last_update_episode_time = PyInt(now)
             /\ \A i \in 1..Len(Beats(events)) : Beats(events)[i].result = "raise")
    /\ [][heartbeatVars' # heartbeatVars =>
             /\ ~local
             /\ pc \in {"yielded", "exhausted"}
             /\ _last_update_episode' = PyInt(Len(episodes_rewards))
             /\ _last_update_episode_time' = PyInt(now')]_vars

\* The second heartbeat of a run raised while it was sent: its count is
\* recorded in place of the first one's.
C26_Witness ==
    /\ HeartbeatRaised
    /\ Beats(events) # <<>>
    /\ ret.before.hb_episode # PyNone
    /\ _last_update_episode = PyInt(Len(episodes_rewards))


(***************************************************************************)
(* parameter(name) and the plugin references.                              *)
(***************************************************************************)
\* The runner was given no reference for one of its plugins.
MissingReference == algorithm_path = PyNone \/ environment_path = PyNone

\* parameter(name) was called, with a name the run-time overrides hold.
Overridden == ret.op = "parameter" /\ ret.name \in DOMAIN PARAMETERS_OVERRIDDEN

\* C28 as stated: parameter(name) obtains both plugins before it looks at
\* any source, so with a plugin reference missing the call raises a
\* configuration error, no plugin is constructed for good, and this is so
\* even for a name the overrides hold.
C28_AsStated ==
    ret.op = "parameter" /\ MissingReference =>
        /\ ret.exc = "UniConfigurationError"
        /\ ret.found = Raised("UniConfigurationError")
        /\ _algorithm = "None"

\* The environment's reference is missing and the algorithm's names a module
\* that cannot be imported: the lookup of an overridden name raised the
\* import's own error.
C28_Witness ==
    /\ Overridden
    /\ environment_path = PyNone
    /\ algorithm_path = PyStr(<<"m", ".", "D">>)
    /\ ret.exc = "ModuleNotFoundError"

(***************************************************************************)
(* Properties of several runners in one process.                           *)
(***************************************************************************)
\* The runners whose constructor was given a value for the name.
PassedBy(name) ==
    {k \in 1..Len(runners) : runners[k].given # <<>> /\ name \in DOMAIN runners[k].given[1]}

\* The value the latest of those constructors was given.
LastPassed(name) ==
    LET k == CHOOSE k \in PassedBy(name) : \A j \in PassedBy(name) : j <= k
    IN  runners[k].given[1][name]

\* The one override table holds exactly what the constructors were given,
\* the latest value for each name.
OverridesAccumulated ==
    /\ DOMAIN PARAMETERS_OVERRIDDEN \subseteq ParamNames
    /\ \A name \in ParamNames :
          IF PassedBy(name) = {}
          THEN name \notin DOMAIN PARAMETERS_OVERRIDDEN
          ELSE /\ name \in DOMAIN PARAMETERS_OVERRIDDEN
               /\ PARAMETERS_OVERRIDDEN[name] = LastPassed(name)

\* Every runner finds the table's value for a name the table holds.
OverridesSeenByAll ==
    \A i \in 1..Len(runners) :
       \A name \in DOMAIN PARAMETERS_OVERRIDDEN :
          parameter(name, PluginsOf(runners[i])).found = Returned(PARAMETERS_OVERRIDDEN[name])

\* A step removes no override, only a constructor changes the table, a new
\* runner starts with nothing saved and nothing reported, and a runner's
\* saved and heartbeat state changes only in its own operations.
PerInstanceStep ==
    /\ \A name \in DOMAIN PARAMETERS_OVERRIDDEN : name \in DOMAIN PARAMETERS_OVERRIDDEN'
    /\ PARAMETERS_OVERRIDDEN' # PARAMETERS_OVERRIDDEN => ret'.op = "init"
    /\ Len(runners') > Len(runners) =>
          runners'[Len(runners')].rs =
             [best |-> PyNone, last_saved |-> 0, hb_time |-> PyNone, hb_episode |-> PyNone]
    /\ \A i \in 1..Len(runners) :
          /\ i <= Len(runners')
          /\ runners'[i].rs # runners[i].rs =>
                ret'.runner = i /\ ret'.op \in {"model_save", "update_episode_count"}

\* C27: run-time overrides are process-wide and only accumulate: a
\* constructor given overrides P adds P to the one table shared by all
\* runners (a later value replaces an earlier one for the same name, nothing
\* is removed), every runner resolves what the table holds, and last-saved
\* score, last-saved episode and heartbeat state stay per instance.
C27_SharedOverrides ==
    /\ [](OverridesAccumulated /\ OverridesSeenByAll)
    /\ [][PerInstanceStep]_vars

\* The first runner, constructed without overrides, has saved a model and
\* then resolves EPISODES to the value the second runner's constructor was
\* given, while the second runner has saved nothing.
C27_Witness ==
    /\ Len(runners) = 2
    /\ runners[1].given = <<>>
    /\ runners[2].given = <<[k \in {"EPISODES"} |-> PyStr(<<"7">>)]>>
    /\ ret.op = "parameter"
    /\ ret.runner = 1
    /\ ret.name = "EPISODES"
    /\ ret.value = PyInt(7)
    /\ runners[1].rs.best = PyFloat(40)
    /\ runners[1].rs.last_saved = 21
    /\ runners[2].rs.best = PyNone
    /\ runners[2].rs.last_saved = 0

====
